---- MODULE Spec2Model ----
(***************************************************************************)
(* Peer health monitor of WGDashboard (src/modules/PeerHealthMonitor.py):  *)
(* the per-interface configuration and its INI store, the health cycle     *)
(* with its keepalive reconciliation, and the classification of each       *)
(* collected peer.                                                          *)
(*                                                                          *)
(* Strings whose content the code converts (numbers in the store, the      *)
(* handshake texts) are sequences of one-character strings; a dict is a    *)
(* function whose DOMAIN is the set of its keys.                            *)
(***************************************************************************)
EXTENDS Integers, Sequences, FiniteSets, TLC

VARIABLES
    _interface_config,  \* self._interface_config: interface -> InterfaceHealthConfig
    ini,                \* dashboard_config.__config, the parser object: order and options of its sections
    disk,               \* the content of wg-dashboard.ini as last written
    ret,                \* the last configuration call: its arguments, the store's answer, and what it returned
    store_failures,     \* writes of the file that failed so far
    wg_configs,         \* self.wg_configs: interface -> what the tunnel layer reports
    _peer_health,       \* self._peer_health: public key -> PeerHealthInfo
    _stats,             \* self._stats
    pc,                 \* position of the running cycle: idle, collect, check
    iface_idx,          \* index of the interface the collect loop is at
    peers_to_check,     \* the peers collected by the running cycle
    cycle_results,      \* the counters the running cycle returns
    probe_log,          \* addresses probed since the cycle began
    cmd_log,            \* correction commands run since the cycle began
    skipped_log,        \* interfaces the running cycle saw down, or with monitoring disabled
    cycles,             \* cycles begun so far
    _running,           \* self._running
    workers,            \* the threads start() has created, self._thread being the last: where each is in _monitor_loop
    forced,             \* the cycle a force_cycle() call runs beside the worker's: its position and its locals
    calls               \* the calls of get_peer_health, get_all_health and ping_peer_now: position, locals and return value of each caller

vars == <<_interface_config, ini, disk, ret, store_failures, wg_configs, _peer_health, _stats, pc,
          iface_idx, peers_to_check, cycle_results, probe_log, cmd_log, skipped_log, cycles,
          _running, workers, forced, calls>>

threadVars == <<_running, workers, forced, calls>>

cycleVars == <<wg_configs, _peer_health, _stats, pc, iface_idx, peers_to_check,
               cycle_results, probe_log, cmd_log, skipped_log, cycles, threadVars>>

----------------------------------------------------------------------------
(* Bounds of the model *)

MaxCycles == 2

\* writes of the file that may fail in one run
MaxStoreFailures == 1

\* threads start() may create in one run
MaxWorkers == 2

\* force_cycle() calls in one run
MaxForced == 1

\* threads that call the facade, and the calls each may make in one run
MaxCallers == 2

MaxRequests == 1

----------------------------------------------------------------------------
(* Text and numbers *)

Digits == <<"0", "1", "2", "3", "4", "5", "6", "7", "8", "9">>

IsDigit(c) == \E d \in 1..10 : Digits[d] = c

DigitVal(c) == (CHOOSE d \in 1..10 : Digits[d] = c) - 1

RECURSIVE NatToStr(_)
NatToStr(n) ==
    IF n < 10 THEN <<Digits[n + 1]>>
    ELSE NatToStr(n \div 10) \o <<Digits[(n % 10) + 1]>>

\* str(n) of an int
IntToStr(n) == IF n < 0 THEN <<"-">> \o NatToStr(-n) ELSE NatToStr(n)

RECURSIVE DigitsToNat(_)
DigitsToNat(s) ==
    IF s = <<>> THEN 0
    ELSE DigitsToNat(SubSeq(s, 1, Len(s) - 1)) * 10 + DigitVal(s[Len(s)])

\* s.strip() of blanks
RECURSIVE Strip(_)
Strip(s) ==
    IF s = <<>> THEN s
    ELSE IF s[1] = " " THEN Strip(Tail(s))
    ELSE IF s[Len(s)] = " " THEN Strip(SubSeq(s, 1, Len(s) - 1))
    ELSE s

\* int(s) of a str: blanks around an optional sign and decimal digits, else ValueError
StrToInt(s) ==
    LET t == Strip(s)
        signed == t # <<>> /\ t[1] \in {"-", "+"}
        body == IF signed THEN Tail(t) ELSE t
    IN  IF body # <<>> /\ \A k \in 1..Len(body) : IsDigit(body[k])
        THEN [ok |-> TRUE,
              v |-> IF signed /\ t[1] = "-" THEN -DigitsToNat(body) ELSE DigitsToNat(body)]
        ELSE [ok |-> FALSE, v |-> 0]

\* whether sub occurs in s at position k
OccursAt(s, sub, k) ==
    /\ k + Len(sub) - 1 <= Len(s)
    /\ SubSeq(s, k, k + Len(sub) - 1) = sub

\* sub in s
Contains(s, sub) == \E k \in 1..Len(s) : OccursAt(s, sub, k)

\* s.split(sep)
RECURSIVE Split(_, _)
Split(s, sep) ==
    IF Contains(s, sep)
    THEN LET k == CHOOSE j \in 1..Len(s) :
                      OccursAt(s, sep, j) /\ \A l \in 1..(j - 1) : ~OccursAt(s, sep, l)
         IN  <<SubSeq(s, 1, k - 1)>> \o Split(SubSeq(s, k + Len(sep), Len(s)), sep)
    ELSE <<s>>

\* s.split(): the words between runs of blanks
RECURSIVE SplitWords(_)
SplitWords(s) ==
    LET t == Strip(s)
    IN  IF t = <<>> THEN <<>>
        ELSE IF Contains(t, <<" ">>)
        THEN LET k == CHOOSE j \in 1..Len(t) : t[j] = " " /\ \A l \in 1..(j - 1) : t[l] # " "
             IN  <<SubSeq(t, 1, k - 1)>> \o SplitWords(SubSeq(t, k, Len(t)))
        ELSE <<t>>

\* int(x) of a request value: an int stays, a str is parsed, None is a TypeError
PyInt(x) ==
    CASE x.t = "int" -> [ok |-> TRUE, v |-> x.v]
      [] x.t = "str" -> StrToInt(x.v)
      [] OTHER -> [ok |-> FALSE, v |-> 0]

\* s.lower() of the texts of a boolean option
Lower(s) ==
    CASE s \in {"True", "TRUE"} -> "true"
      [] s \in {"False", "FALSE"} -> "false"
      [] OTHER -> s

BoolToStr(b) == IF b THEN "true" ELSE "false"

\* a dict: the empty one, and d[k] = v
EmptyDict == [k \in {} |-> 0]

Put(d, k, v) == [i \in DOMAIN d \cup {k} |-> IF i = k THEN v ELSE d[i]]

Max(a, b) == IF a > b THEN a ELSE b
Min(a, b) == IF a < b THEN a ELSE b

----------------------------------------------------------------------------
(* InterfaceHealthConfig and its ranges *)

DefaultPingInterval == 30
DefaultKeepalive == 25
PingIntervalMin == 10
PingIntervalMax == 300
KeepaliveMin == 10
KeepaliveMax == 120

InterfaceHealthConfig ==
    [enabled |-> TRUE, ping_interval |-> DefaultPingInterval,
     set_keepalive |-> TRUE, keepalive_value |-> DefaultKeepalive]

ClampNoLower(lo, hi, n) == Min(hi, n)

\* max(lo, min(hi, n))
Clamp(lo, hi, n) == Max(lo, Min(hi, n))

----------------------------------------------------------------------------
(* The configuration store *)

Interfaces == {"wg0", "wg1"}

\* the name of the section of an interface, "Health:" + interface
SectionName(interface) == <<"Health:", interface>>

has_section(config, section) == section \in DOMAIN config.opts

has_option(config, section, option) == option \in DOMAIN config.opts[section]

add_section(config, section) ==
    [order |-> Append(config.order, section), opts |-> Put(config.opts, section, EmptyDict)]

\* config.set(section, option, value)
set_option(config, section, option, value) ==
    [config EXCEPT !.opts[section] = Put(config.opts[section], option, value)]

\* one section read the way the loader reads it: the config, or the ValueError of int()
LoadSection(options) ==
    LET has(o) == o \in DOMAIN options
        pi == IF has("ping_interval") THEN StrToInt(options["ping_interval"])
              ELSE [ok |-> TRUE, v |-> 0]
        kv == IF has("keepalive_value") THEN StrToInt(options["keepalive_value"])
              ELSE [ok |-> TRUE, v |-> 0]
        d == InterfaceHealthConfig
    IN  [ok |-> pi.ok /\ kv.ok,
         cfg |-> [enabled |-> IF has("enabled") THEN Lower(options["enabled"]) = "true"
                              ELSE d.enabled,
                  ping_interval |-> IF has("ping_interval")
                                    THEN Clamp(PingIntervalMin, PingIntervalMax, pi.v)
                                    ELSE d.ping_interval,
                  set_keepalive |-> IF has("set_keepalive")
                                    THEN Lower(options["set_keepalive"]) = "true"
                                    ELSE d.set_keepalive,
                  keepalive_value |-> IF has("keepalive_value")
                                      THEN Clamp(KeepaliveMin, KeepaliveMax, kv.v)
                                      ELSE d.keepalive_value]]

\* the loop over config.sections(): the first ValueError ends the whole load
RECURSIVE LoadSections(_, _, _)
LoadSections(config, k, acc) ==
    IF k > Len(config.order) THEN acc
    ELSE LET section == config.order[k]
         IN  IF section[1] # "Health:" THEN LoadSections(config, k + 1, acc)
             ELSE LET r == LoadSection(config.opts[section])
                      name == section[2]
                  IN  IF ~r.ok THEN acc
                      ELSE LoadSections(config, k + 1, Put(acc, name, r.cfg))

_load_config_from_ini(config) == LoadSections(config, 1, EmptyDict)

\* dashboard_config.SaveConfig(): the file is rewritten from the parser, or the write fails
SaveOutcomes == {"ok", "false", "raise"}

SaveConfig(config, file, outcome) ==
    [disk |-> IF outcome = "ok" THEN config ELSE file, value |-> outcome = "ok"]

\* the result of _save_interface_config_to_ini: the store afterwards and the value returned
_save_interface_config_to_ini(cfgs, config, file, interface, outcome) ==
    IF interface \notin DOMAIN cfgs THEN [ini |-> config, disk |-> file, value |-> FALSE]
    ELSE LET cfg == cfgs[interface]
             section == SectionName(interface)
             c0 == IF has_section(config, section) THEN config ELSE add_section(config, section)
             c1 == set_option(c0, section, "enabled", BoolToStr(cfg.enabled))
             c2 == set_option(c1, section, "ping_interval", IntToStr(cfg.ping_interval))
             c3 == set_option(c2, section, "set_keepalive", BoolToStr(cfg.set_keepalive))
             c4 == set_option(c3, section, "keepalive_value", IntToStr(cfg.keepalive_value))
             saved == SaveConfig(c4, file, outcome)
         IN  [ini |-> c4, disk |-> saved.disk, value |-> saved.value]

\* the assignments of set_interface_config up to its first exception
ApplyConfig(cfgs, interface, config) ==
    LET has(o) == o \in DOMAIN config
        c0 == IF interface \in DOMAIN cfgs THEN cfgs[interface] ELSE InterfaceHealthConfig
        c1 == IF has("enabled") THEN [c0 EXCEPT !.enabled = config["enabled"]] ELSE c0
        pi == IF has("ping_interval") THEN PyInt(config["ping_interval"])
              ELSE [ok |-> TRUE, v |-> 0]
        c2 == IF has("ping_interval")
              THEN [c1 EXCEPT !.ping_interval = Clamp(PingIntervalMin, PingIntervalMax, pi.v)]
              ELSE c1
        c3 == IF has("set_keepalive") THEN [c2 EXCEPT !.set_keepalive = config["set_keepalive"]]
              ELSE c2
        kv == IF has("keepalive_value") THEN PyInt(config["keepalive_value"])
              ELSE [ok |-> TRUE, v |-> 0]
        c4 == IF has("keepalive_value")
              THEN [c3 EXCEPT !.keepalive_value = Clamp(KeepaliveMin, KeepaliveMax, kv.v)]
              ELSE c3
    IN  IF ~pi.ok THEN [cfg |-> c1, raised |-> TRUE]
        ELSE IF ~kv.ok THEN [cfg |-> c3, raised |-> TRUE]
        ELSE [cfg |-> c4, raised |-> FALSE]

set_interface_config(interface, config, outcome) ==
    LET r == ApplyConfig(_interface_config, interface, config)
        cfgs == Put(_interface_config, interface, r.cfg)
        s == _save_interface_config_to_ini(cfgs, ini, disk, interface, outcome)
    IN  /\ _interface_config' = cfgs
        /\ IF r.raised
           THEN /\ UNCHANGED <<ini, disk>>
                /\ ret' = [op |-> "set", interface |-> interface, args |-> config,
                           created |-> interface \notin DOMAIN _interface_config,
                           save |-> "none", value |-> FALSE, config |-> r.cfg]
           ELSE /\ ini' = s.ini
                /\ disk' = s.disk
                /\ ret' = [op |-> "set", interface |-> interface, args |-> config,
                           created |-> interface \notin DOMAIN _interface_config,
                           save |-> outcome, value |-> TRUE, config |-> r.cfg]

\* get_interface_config on the given state: the state afterwards and the config returned
GetInterfaceConfig(cfgs, config, file, interface, outcome) ==
    IF interface \in DOMAIN cfgs
    THEN [cfgs |-> cfgs, ini |-> config, disk |-> file, created |-> FALSE,
          save |-> "none", value |-> cfgs[interface]]
    ELSE LET cfgs1 == Put(cfgs, interface, InterfaceHealthConfig)
             s == _save_interface_config_to_ini(cfgs1, config, file, interface, outcome)
         IN  [cfgs |-> cfgs1, ini |-> s.ini, disk |-> s.disk, created |-> TRUE,
              save |-> outcome, value |-> cfgs1[interface]]

get_interface_config(interface, outcome) ==
    LET g == GetInterfaceConfig(_interface_config, ini, disk, interface, outcome)
    IN  /\ _interface_config' = g.cfgs
        /\ ini' = g.ini
        /\ disk' = g.disk
        /\ ret' = [op |-> "get", interface |-> interface, args |-> EmptyDict,
                   created |-> g.created, save |-> g.save, value |-> TRUE,
                   config |-> g.value]

----------------------------------------------------------------------------
(* Time, in seconds.  Timestamps count from 2026-01-01T00:00:00; the clock *)
(* stands at the 20th of that month and moves on by a minute per cycle.    *)

Now == 19 * 86400 + 12 * 3600 + cycles * 60

\* timedelta(minutes=3) and timedelta(minutes=15)
HANDSHAKE_ONLINE_TIMEOUT == 180
HANDSHAKE_RECENT_TIMEOUT == 900

None == [t |-> "None"]

Str(v) == [t |-> "str", v |-> v]

Datetime(ts) == [t |-> "datetime", v |-> ts, aware |-> FALSE]

----------------------------------------------------------------------------
(* _parse_handshake_age *)

Sentinels == {<<"N", "o", " ", "H", "a", "n", "d", "s", "h", "a", "k", "e">>,
              <<"N", "/", "A">>, <<>>, <<"0">>}

\* timedelta(days, hours, minutes, seconds) of the int() results: the age, or the
\* ValueError the try block catches
TimedeltaAge(days, hours, minutes, seconds) ==
    IF days.ok /\ hours.ok /\ minutes.ok /\ seconds.ok
    THEN [ok |-> TRUE, age |-> days.v * 86400 + hours.v * 3600 + minutes.v * 60 + seconds.v]
    ELSE [ok |-> FALSE, age |-> 0]

\* the time part "H:MM:SS", split at ":"; any other count of parts falls through
TimePart(days, time_parts) ==
    IF Len(time_parts) # 3 THEN [ok |-> FALSE, age |-> 0]
    ELSE TimedeltaAge(days, StrToInt(time_parts[1]), StrToInt(time_parts[2]),
                      StrToInt(time_parts[3]))

\* int(day_part.split()[0]): an IndexError without a word
DayCount(words) == IF words = <<>> THEN [ok |-> FALSE, v |-> 0] ELSE StrToInt(words[1])

\* "X day(s), H:MM:SS", split at ", "
DayForm(parts) ==
    TimePart(DayCount(SplitWords(parts[1])),
             Split(IF Len(parts) > 1 THEN parts[2] ELSE <<"0", ":", "0", ":", "0">>, <<":">>))

\* the try block for "H:MM:SS" and "X day(s), H:MM:SS": the age, or the caught error
ParseTimedelta(s) ==
    IF Contains(s, <<"d", "a", "y">>) THEN DayForm(Split(s, <<",", " ">>))
    ELSE TimePart([ok |-> TRUE, v |-> 0], Split(s, <<":">>))

\* datetime.fromisoformat for the texts "2026-01-DDTHH:MM:SS" of the model's month,
\* with an optional "+00:00"; any other text is a ValueError
FromIsoFormat(s) ==
    LET shaped == /\ Len(s) \in {19, 25}
                  /\ SubSeq(s, 1, 8) = <<"2", "0", "2", "6", "-", "0", "1", "-">>
                  /\ s[11] \in {"T", " "}
                  /\ s[14] = ":"
                  /\ s[17] = ":"
                  /\ \A k \in {9, 10, 12, 13, 15, 16, 18, 19} : IsDigit(s[k])
                  /\ Len(s) = 25 => SubSeq(s, 20, 25) = <<"+", "0", "0", ":", "0", "0">>
        two(k) == DigitVal(s[k]) * 10 + DigitVal(s[k + 1])
    IN  IF shaped /\ two(9) \in 1..31 /\ two(12) < 24 /\ two(15) < 60 /\ two(18) < 60
        THEN [ok |-> TRUE, aware |-> Len(s) = 25,
              ts |-> (two(9) - 1) * 86400 + two(12) * 3600 + two(15) * 60 + two(18)]
        ELSE [ok |-> FALSE, aware |-> FALSE, ts |-> 0]

\* float(s) for decimal integers, "inf" and "nan"; any other text is a ValueError
ToFloat(s) ==
    LET n == StrToInt(s)
    IN  IF n.ok THEN [ok |-> TRUE, kind |-> "finite", v |-> n.v]
        ELSE IF Strip(s) = <<"i", "n", "f">> THEN [ok |-> TRUE, kind |-> "inf", v |-> 0]
        ELSE IF Strip(s) = <<"n", "a", "n">> THEN [ok |-> TRUE, kind |-> "nan", v |-> 0]
        ELSE [ok |-> FALSE, kind |-> "finite", v |-> 0]

\* What _parse_handshake_age gives: res is "age" (with the age), "None", or "raise"
\* for an exception that leaves the function; set tells whether
\* health.last_handshake was assigned, and to what
NoAge == [res |-> "None", age |-> 0, set |-> FALSE, last_handshake |-> 0]

Aged(ts, now) == [res |-> "age", age |-> now - ts, set |-> TRUE, last_handshake |-> ts]

Raised(assigned, ts) == [res |-> "raise", age |-> 0, set |-> assigned, last_handshake |-> ts]

\* a text that is no sentinel: d, i and f are what the three attempts make of it
TextAge(d, i, f, now) ==
    IF d.ok THEN Aged(now - d.age, now)
    ELSE IF i.ok THEN IF i.aware THEN Raised(TRUE, i.ts) ELSE Aged(i.ts, now)
    ELSE IF ~f.ok \/ f.kind = "nan" THEN NoAge
    ELSE IF f.kind = "inf" THEN Raised(FALSE, 0)
    ELSE IF f.v > 0 THEN Aged(f.v, now)
    ELSE NoAge

_parse_handshake_age(latest_handshake, now) ==
    CASE latest_handshake.t = "str" ->
             IF latest_handshake.v \in Sentinels THEN NoAge
             ELSE TextAge(ParseTimedelta(latest_handshake.v),
                          FromIsoFormat(latest_handshake.v),
                          ToFloat(latest_handshake.v), now)
      [] latest_handshake.t = "num" ->
             IF latest_handshake.v > 0 THEN Aged(latest_handshake.v, now) ELSE NoAge
      [] latest_handshake.t = "datetime" ->
             IF latest_handshake.aware THEN Raised(TRUE, latest_handshake.v)
             ELSE Aged(latest_handshake.v, now)
      [] OTHER -> NoAge

----------------------------------------------------------------------------
(* Probes and peer records *)

\* the round-trip time icmplib reports for an answered probe
RttMs == 12

ProbeOutcomes == {"alive", "dead", "raise"}

\* a probe whose exception path counts nothing
DoPingUncounted(stats, probe) ==
    CASE probe = "alive" ->
             [stats |-> [stats EXCEPT !.total_pings = @ + 1, !.successful_pings = @ + 1],
              result |-> [success |-> TRUE, rtt_ms |-> RttMs]]
      [] probe = "dead" ->
             [stats |-> [stats EXCEPT !.total_pings = @ + 1, !.failed_pings = @ + 1],
              result |-> [success |-> FALSE, rtt_ms |-> 0]]
      [] OTHER ->
             [stats |-> stats, result |-> [success |-> FALSE, rtt_ms |-> 0]]

\* _do_ping: the statistics afterwards and the result dict
_do_ping(stats, probe) ==
    CASE probe = "alive" ->
             [stats |-> [stats EXCEPT !.total_pings = @ + 1, !.successful_pings = @ + 1],
              result |-> [success |-> TRUE, rtt_ms |-> RttMs]]
      [] probe = "dead" ->
             [stats |-> [stats EXCEPT !.total_pings = @ + 1, !.failed_pings = @ + 1],
              result |-> [success |-> FALSE, rtt_ms |-> 0]]
      [] OTHER ->
             [stats |-> [stats EXCEPT !.failed_pings = @ + 1],
              result |-> [success |-> FALSE, rtt_ms |-> 0]]

_update_peer_after_ping(health, ping_result, now) ==
    [health EXCEPT !.last_ping_time = Datetime(now),
                   !.last_ping_success = ping_result.success,
                   !.ping_rtt_ms = ping_result.rtt_ms,
                   !.ping_success_count = IF ping_result.success THEN @ + 1 ELSE @,
                   !.ping_fail_count = IF ping_result.success THEN @ ELSE @ + 1]

PeerHealthInfo(public_key, vpn_ip, interface, name) ==
    [public_key |-> public_key, vpn_ip |-> vpn_ip, interface |-> interface, name |-> name,
     is_pingable |-> FALSE, last_ping_time |-> None, last_ping_success |-> FALSE,
     ping_rtt_ms |-> 0, ping_success_count |-> 0, ping_fail_count |-> 0,
     last_handshake |-> None, status |-> "unknown",
     last_endpoint |-> "", endpoint_changed |-> FALSE]

\* network.hosts() of an IPv4 network of the given prefix length
HostCount(plen) == IF plen = 32 THEN 1 ELSE IF plen = 31 THEN 2 ELSE 2 ^ (32 - plen) - 2

\* an exception that is no ValueError
MemoryError == [t |-> "raise"]

\* an entry that ends the loop: a network of one host or of prefix length 32, or a
\* network so wide (0.0.0.0/0, ::/0) that list(network.hosts()) exhausts the memory
Ends(e) == e.t = "wide" \/ (e.t = "net" /\ (HostCount(e.plen) = 1 \/ e.plen = 32))

\* a loop in which the ValueError of ip_network is not caught
RECURSIVE ExtractUncaught(_)
ExtractUncaught(allowed_ips) ==
    IF allowed_ips = <<>> THEN None
    ELSE IF Head(allowed_ips).t = "bad" THEN MemoryError
    ELSE IF ~Ends(Head(allowed_ips)) THEN ExtractUncaught(Tail(allowed_ips))
    ELSE IF Head(allowed_ips).t = "wide" THEN MemoryError
    ELSE Str(Head(allowed_ips).addr)

\* allowed_ips is the list of its comma-separated entries: a network, or a text that
\* ip_network rejects ("bad"), whose ValueError is caught
RECURSIVE _extract_vpn_ip(_)
_extract_vpn_ip(allowed_ips) ==
    IF allowed_ips = <<>> THEN None
    ELSE IF ~Ends(Head(allowed_ips)) THEN _extract_vpn_ip(Tail(allowed_ips))
    ELSE IF Head(allowed_ips).t = "wide" THEN MemoryError
    ELSE Str(Head(allowed_ips).addr)

ZeroResults ==
    [checked |-> 0, online |-> 0, unpingable |-> 0, recent |-> 0, offline |-> 0,
     skipped |-> 0, pingable |-> 0, endpoint_changes |-> 0]

ZeroStats ==
    [total_pings |-> 0, successful_pings |-> 0, failed_pings |-> 0, skipped_offline |-> 0,
     endpoint_updates |-> 0, last_cycle_time |-> None, last_cycle_duration_ms |-> 0]

\* (time.time() - start_time) * 1000 at the end of a cycle: time passes in its probes
DurationMs(probes) == Len(probes) * RttMs

----------------------------------------------------------------------------
(* _check_peer *)

\* the condition of the endpoint change
EndpointChanged(last_endpoint, current_endpoint) ==
    /\ last_endpoint # ""
    /\ last_endpoint # current_endpoint
    /\ current_endpoint # "(none)"

IsOfflineLate(handshake_age) == handshake_age > HANDSHAKE_RECENT_TIMEOUT + 60

\* handshake_age > HANDSHAKE_RECENT_TIMEOUT
IsOffline(handshake_age) == handshake_age > HANDSHAKE_RECENT_TIMEOUT

IsOnlineInclusive(handshake_age) == handshake_age <= HANDSHAKE_ONLINE_TIMEOUT

\* handshake_age < HANDSHAKE_ONLINE_TIMEOUT
IsOnline(handshake_age) == handshake_age < HANDSHAKE_ONLINE_TIMEOUT

StatusOfflineOnFailure(handshake_age, success) ==
    IF IsOnline(handshake_age) THEN IF success THEN "online" ELSE "offline"
    ELSE "recent"

\* the status of a probed peer
StatusAfterPing(handshake_age, success) ==
    IF IsOnline(handshake_age) THEN IF success THEN "online" ELSE "unpingable"
    ELSE "recent"

\* is_pingable of a probed peer
PingableAfterPing(handshake_age, success, is_pingable) ==
    IF IsOnline(handshake_age) THEN success
    ELSE IF success THEN TRUE ELSE is_pingable

SkipUnknownKeepsStatus(health) == health

\* the record of a peer without a handshake age
SkipUnknown(health) == [health EXCEPT !.status = "unknown"]

\* the record of a peer whose handshake is older than 15 minutes
SkipOffline(health) == [health EXCEPT !.status = "offline", !.is_pingable = FALSE]

\* the records, statistics and cycle counters after _check_peer of one collected peer,
\* the probes it sent, and whether it left through an exception
\* the record of the peer, created if it has none, with the reported address,
\* interface and name
\* a lookup that stores a new record whether or not the key has one
GetOrCreateFresh(healths, peer_info) ==
    Put(healths, peer_info.public_key,
        PeerHealthInfo(peer_info.public_key, peer_info.vpn_ip, peer_info.interface,
                       peer_info.name))

\* the records after the lookup under the lock: a key without a record gets one
GetOrCreate(healths, peer_info) ==
    IF peer_info.public_key \in DOMAIN healths THEN healths
    ELSE Put(healths, peer_info.public_key,
             PeerHealthInfo(peer_info.public_key, peer_info.vpn_ip, peer_info.interface,
                            peer_info.name))

\* the record of the peer, found or created, with the three fields the check refreshes
Register(healths, peer_info) ==
    [GetOrCreate(healths, peer_info)[peer_info.public_key] EXCEPT
        !.vpn_ip = peer_info.vpn_ip, !.interface = peer_info.interface,
        !.name = peer_info.name]

\* the check for an endpoint change
NoteEndpoint(health, stats, results, current_endpoint) ==
    IF EndpointChanged(health.last_endpoint, current_endpoint)
    THEN [health |-> [health EXCEPT !.endpoint_changed = TRUE,
                                    !.last_endpoint = current_endpoint],
          stats |-> [stats EXCEPT !.endpoint_updates = @ + 1],
          results |-> [results EXCEPT !.endpoint_changes = @ + 1]]
    ELSE [health |-> [health EXCEPT !.endpoint_changed = FALSE,
                                    !.last_endpoint = current_endpoint],
          stats |-> stats, results |-> results]

\* STEP 3 and STEP 4: the probe and the final status
Probed(health, stats, results, handshake_age, ping, now, sent) ==
    LET status == StatusAfterPing(handshake_age, ping.result.success)
        h4 == _update_peer_after_ping(health, ping.result, now)
    IN  [health |-> [h4 EXCEPT !.status = status,
                               !.is_pingable = PingableAfterPing(handshake_age,
                                                   ping.result.success, health.is_pingable)],
         stats |-> ping.stats,
         results |-> [results EXCEPT
                         !.online = IF status = "online" THEN @ + 1 ELSE @,
                         !.unpingable = IF status = "unpingable" THEN @ + 1 ELSE @,
                         !.recent = IF status = "recent" THEN @ + 1 ELSE @,
                         !.pingable = IF ping.result.success /\ status # "unpingable"
                                      THEN @ + 1 ELSE @],
         probes |-> sent, raised |-> FALSE]

\* a classification that counts the peer as checked before its handshake is parsed
ClassifyCountsFirst(st, parsed, peer_info, probe, now) ==
    LET h3 == IF parsed.set
              THEN [st.health EXCEPT !.last_handshake = Datetime(parsed.last_handshake)]
              ELSE st.health
        results2 == [st.results EXCEPT !.checked = @ + 1]
    IN  IF parsed.res = "raise"
        THEN [health |-> h3, stats |-> st.stats, results |-> results2,
              probes |-> <<>>, raised |-> TRUE]
        ELSE IF parsed.res = "None"
        THEN [health |-> SkipUnknown(h3),
              stats |-> [st.stats EXCEPT !.skipped_offline = @ + 1],
              results |-> [results2 EXCEPT !.skipped = @ + 1],
              probes |-> <<>>, raised |-> FALSE]
        ELSE IF IsOffline(parsed.age)
        THEN [health |-> SkipOffline(h3),
              stats |-> [st.stats EXCEPT !.skipped_offline = @ + 1],
              results |-> [results2 EXCEPT !.offline = @ + 1, !.skipped = @ + 1],
              probes |-> <<>>, raised |-> FALSE]
        ELSE Probed(h3, st.stats, results2, parsed.age, _do_ping(st.stats, probe), now,
                    <<[ip |-> peer_info.vpn_ip, public_key |-> peer_info.public_key,
                       interface |-> peer_info.interface]>>)

\* STEP 1 to STEP 4 on the record st.health: parsed is what _parse_handshake_age gave
Classify(st, parsed, peer_info, probe, now) ==
    LET h3 == IF parsed.set
              THEN [st.health EXCEPT !.last_handshake = Datetime(parsed.last_handshake)]
              ELSE st.health
        results2 == [st.results EXCEPT !.checked = @ + 1]
    IN  IF parsed.res = "raise"
        THEN [health |-> h3, stats |-> st.stats, results |-> st.results,
              probes |-> <<>>, raised |-> TRUE]
        ELSE IF parsed.res = "None"
        THEN [health |-> SkipUnknown(h3),
              stats |-> [st.stats EXCEPT !.skipped_offline = @ + 1],
              results |-> [results2 EXCEPT !.skipped = @ + 1],
              probes |-> <<>>, raised |-> FALSE]
        ELSE IF IsOffline(parsed.age)
        THEN [health |-> SkipOffline(h3),
              stats |-> [st.stats EXCEPT !.skipped_offline = @ + 1],
              results |-> [results2 EXCEPT !.offline = @ + 1, !.skipped = @ + 1],
              probes |-> <<>>, raised |-> FALSE]
        ELSE Probed(h3, st.stats, results2, parsed.age, _do_ping(st.stats, probe), now,
                    <<[ip |-> peer_info.vpn_ip, public_key |-> peer_info.public_key,
                       interface |-> peer_info.interface]>>)

\* the records with that of the checked peer
Recorded(healths, public_key, r) == [r EXCEPT !.health = Put(healths, public_key, r.health)]

\* a check that looks at the endpoint after STEP 2, whose returns then skip it
CheckPeerStatusFirst(healths, stats, results, peer_info, probe, now) ==
    Recorded(healths, peer_info.public_key,
             Classify(IF /\ _parse_handshake_age(peer_info.latest_handshake, now).res = "age"
                         /\ ~IsOffline(_parse_handshake_age(peer_info.latest_handshake,
                                                            now).age)
                      THEN NoteEndpoint(Register(healths, peer_info), stats, results,
                                        peer_info.endpoint)
                      ELSE [health |-> Register(healths, peer_info), stats |-> stats,
                            results |-> results],
                      _parse_handshake_age(peer_info.latest_handshake, now),
                      peer_info, probe, now))

_check_peer(healths, stats, results, peer_info, probe, now) ==
    Recorded(healths, peer_info.public_key,
             Classify(NoteEndpoint(Register(healths, peer_info), stats, results,
                                   peer_info.endpoint),
                      _parse_handshake_age(peer_info.latest_handshake, now),
                      peer_info, probe, now))

----------------------------------------------------------------------------
(* _ensure_keepalive and the collect loop of _run_health_cycle *)

\* wg_configs.items() in its order
IfaceOrder == <<"wg0", "wg1">>

\* the subprocess.run calls of the loop over wg_config.Peers; the raiseAt-th call
\* raises (none if 0), which ends the loop
RECURSIVE KeepaliveLoop(_, _, _, _, _, _)
KeepaliveLoop(wg_cmd, interface, peers, keepalive, raiseAt, issued) ==
    IF peers = <<>> THEN <<>>
    ELSE LET peer == Head(peers)
         IN  IF peer.persistent_keepalive # keepalive
             THEN LET cmd == [wg_cmd |-> wg_cmd, interface |-> interface, peer |-> peer.id,
                              value |-> IntToStr(keepalive),
                              raised |-> issued + 1 = raiseAt]
                  IN  IF cmd.raised THEN <<cmd>>
                      ELSE <<cmd>> \o KeepaliveLoop(wg_cmd, interface, Tail(peers), keepalive,
                                                    raiseAt, issued + 1)
             ELSE KeepaliveLoop(wg_cmd, interface, Tail(peers), keepalive, raiseAt, issued)

\* a loop that returns after its first peer
EnsureKeepaliveOnce(interface, wg_config, keepalive, raiseAt) ==
    KeepaliveLoop(IF wg_config.Protocol = "awg" THEN "awg" ELSE "wg", interface,
                  SubSeq(wg_config.Peers, 1, 1), keepalive, raiseAt, 0)

_ensure_keepalive(interface, wg_config, keepalive, raiseAt) ==
    KeepaliveLoop(IF wg_config.Protocol = "awg" THEN "awg" ELSE "wg", interface,
                  wg_config.Peers, keepalive, raiseAt, 0)

IsDisabledNever(cfg) == FALSE

\* not wg_config.getStatus()
IsDown(wg_config) == ~wg_config.status

\* not cfg.enabled
IsDisabled(cfg) == ~cfg.enabled

\* _extract_vpn_ip raises for a peer of the list: the exception leaves the loop over
\* wg_config.Peers, and _run_health_cycle
CollectRaises(peers) ==
    \E k \in 1..Len(peers) : _extract_vpn_ip(peers[k].allowed_ip) = MemoryError

\* the peer_info dicts appended for the peers of one interface
RECURSIVE CollectPeers(_, _)
CollectPeers(iface_name, peers) ==
    IF peers = <<>> THEN <<>>
    ELSE LET peer == Head(peers)
             vpn_ip == _extract_vpn_ip(peer.allowed_ip)
         IN  (IF vpn_ip.t = "str"
              THEN <<[interface |-> iface_name, public_key |-> peer.id, name |-> peer.name,
                      vpn_ip |-> vpn_ip.v, endpoint |-> peer.endpoint,
                      latest_handshake |-> peer.latest_handshake]>>
              ELSE <<>>) \o CollectPeers(iface_name, Tail(peers))

----------------------------------------------------------------------------
(* The operations *)

\* no force_cycle() call is running
NoForce == [pc |-> "idle", peers |-> <<>>, results |-> ZeroResults, probes |-> <<>>, calls |-> 0]

\* the threads that call the facade
Callers == 1..MaxCallers

\* a caller that has called nothing yet
NoRequest ==
    [op |-> "none", pc |-> "returned", public_key |-> "", n |-> 0, before |-> None,
     result |-> [success |-> FALSE, rtt_ms |-> 0], sent |-> <<>>, loaded |-> 0,
     stat |-> "", alone |-> TRUE, reply |-> None]

NoCall ==
    [op |-> "none", interface |-> "", args |-> EmptyDict, created |-> FALSE,
     save |-> "none", value |-> FALSE, config |-> InterfaceHealthConfig]

\* the store may fail while fewer than MaxStoreFailures writes have failed
StoreMay(outcome) == outcome = "ok" \/ store_failures < MaxStoreFailures

\* the count of failed writes after a call that wrote with the given outcome, or did not
Failures(wrote, outcome) ==
    IF wrote /\ outcome # "ok" THEN store_failures + 1 ELSE store_failures

\* set_interface_config called between two cycles; SetBegins, SetWrites and SetSaves are
\* the call made while a cycle runs
SetInterfaceConfig(interface, config, outcome) ==
    /\ pc = "idle"
    /\ StoreMay(outcome)
    /\ set_interface_config(interface, config, outcome)
    /\ store_failures' = Failures(ret'.save # "none", outcome)
    /\ UNCHANGED cycleVars

GetInterfaceConfigCall(interface, outcome) ==
    /\ StoreMay(outcome)
    /\ get_interface_config(interface, outcome)
    /\ store_failures' = Failures(ret'.save # "none", outcome)
    /\ UNCHANGED cycleVars

\* _run_health_cycle up to its first loop
CycleStarts ==
    /\ pc = "idle"
    /\ cycles < MaxCycles
    /\ pc' = "collect"
    /\ iface_idx' = 1
    /\ peers_to_check' = <<>>
    /\ cycle_results' = ZeroResults
    /\ probe_log' = <<>>
    /\ cmd_log' = <<>>
    /\ skipped_log' = {}
    /\ cycles' = cycles + 1
    /\ UNCHANGED <<_interface_config, ini, disk, ret, store_failures, wg_configs,
                   _peer_health, _stats>>

\* a cycle begins, from the worker or from force_cycle
CycleBegin == CycleStarts /\ UNCHANGED threadVars

\* where the loop over wg_configs.items() is after a pass: at the next interface, at
\* the second loop, or left by an exception that ends _run_health_cycle
Passes(raised) ==
    IF raised THEN iface_idx' = 1 /\ pc' = "idle"
    ELSE IF iface_idx < Len(IfaceOrder) THEN iface_idx' = iface_idx + 1 /\ pc' = "collect"
    ELSE iface_idx' = iface_idx /\ pc' = "check"

\* the body of the loop over wg_configs.items(): g is what get_interface_config does
\* when the interface is up
Collects(iface_name, wg_config, g, outcome, raiseAt) ==
    IF IsDown(wg_config)
    THEN /\ skipped_log' = skipped_log \cup {iface_name}
         /\ Passes(FALSE)
         /\ UNCHANGED <<_interface_config, ini, disk, ret, store_failures,
                        peers_to_check, cmd_log>>
    ELSE /\ _interface_config' = g.cfgs
         /\ store_failures' = Failures(g.created, outcome)
         /\ ini' = g.ini
         /\ disk' = g.disk
         /\ ret' = [op |-> "get", interface |-> iface_name, args |-> EmptyDict,
                    created |-> g.created, save |-> g.save, value |-> TRUE,
                    config |-> g.value]
         /\ skipped_log' = IF g.value.enabled THEN skipped_log
                            ELSE skipped_log \cup {iface_name}
         /\ IF IsDisabled(g.value)
            THEN Passes(FALSE) /\ UNCHANGED <<peers_to_check, cmd_log>>
            ELSE /\ cmd_log' = cmd_log \o
                        (IF g.value.set_keepalive
                         THEN _ensure_keepalive(iface_name, wg_config,
                                                g.value.keepalive_value, raiseAt)
                         ELSE <<>>)
                 /\ Passes(CollectRaises(wg_config.Peers))
                 /\ peers_to_check' =
                        IF CollectRaises(wg_config.Peers) THEN <<>>
                        ELSE peers_to_check \o CollectPeers(iface_name, wg_config.Peers)

\* one pass of the loop over wg_configs.items(); an exception of _extract_vpn_ip
\* leaves _run_health_cycle, whose locals are gone, and is logged by _monitor_loop or
\* raised to the caller of force_cycle
CollectInterface(outcome, raiseAt) ==
    /\ pc = "collect"
    /\ StoreMay(outcome)
    /\ IF IfaceOrder[iface_idx] \in DOMAIN wg_configs
       THEN Collects(IfaceOrder[iface_idx], wg_configs[IfaceOrder[iface_idx]],
                     GetInterfaceConfig(_interface_config, ini, disk, IfaceOrder[iface_idx],
                                        outcome),
                     outcome, raiseAt)
       ELSE /\ Passes(FALSE)
            /\ UNCHANGED <<_interface_config, ini, disk, ret, store_failures,
                           peers_to_check, cmd_log, skipped_log>>
    /\ UNCHANGED <<wg_configs, _peer_health, _stats, cycle_results, probe_log, cycles,
                   threadVars>>

\* The pass of CollectInterface over an interface that is up and has an entry, statement
\* by statement: cfg is the entry itself, and each of cfg.enabled, cfg.set_keepalive and
\* cfg.keepalive_value is read when its statement runs.

\* the loop `for peer in wg_config.Peers` that ends a pass
Gathers(iface_name, wg_config) ==
    /\ Passes(CollectRaises(wg_config.Peers))
    /\ peers_to_check' = IF CollectRaises(wg_config.Peers) THEN <<>>
                         ELSE peers_to_check \o CollectPeers(iface_name, wg_config.Peers)

\* up to `if not cfg.enabled`
PassEnabled ==
    /\ pc = "collect"
    /\ IF IfaceOrder[iface_idx] \notin DOMAIN wg_configs
       THEN Passes(FALSE) /\ skipped_log' = skipped_log
       ELSE IF IsDown(wg_configs[IfaceOrder[iface_idx]])
               \/ IsDisabled(_interface_config[IfaceOrder[iface_idx]])
       THEN Passes(FALSE) /\ skipped_log' = skipped_log \cup {IfaceOrder[iface_idx]}
       ELSE pc' = "keepalive" /\ iface_idx' = iface_idx /\ skipped_log' = skipped_log
    /\ UNCHANGED <<_interface_config, ini, disk, ret, store_failures, wg_configs,
                   _peer_health, _stats, peers_to_check, cycle_results, probe_log, cmd_log,
                   cycles, threadVars>>

\* `if cfg.set_keepalive`
PassKeepalive ==
    /\ pc = "keepalive"
    /\ IF _interface_config[IfaceOrder[iface_idx]].set_keepalive
       THEN pc' = "enforce" /\ UNCHANGED <<iface_idx, peers_to_check>>
       ELSE Gathers(IfaceOrder[iface_idx], wg_configs[IfaceOrder[iface_idx]])
    /\ UNCHANGED <<_interface_config, ini, disk, ret, store_failures, wg_configs,
                   _peer_health, _stats, cycle_results, probe_log, cmd_log, skipped_log,
                   cycles, threadVars>>

\* the call of _ensure_keepalive with cfg.keepalive_value, and the rest of the pass
PassEnforce ==
    /\ pc = "enforce"
    /\ cmd_log' = cmd_log \o
           _ensure_keepalive(IfaceOrder[iface_idx], wg_configs[IfaceOrder[iface_idx]],
                             _interface_config[IfaceOrder[iface_idx]].keepalive_value, 0)
    /\ Gathers(IfaceOrder[iface_idx], wg_configs[IfaceOrder[iface_idx]])
    /\ UNCHANGED <<_interface_config, ini, disk, ret, store_failures, wg_configs,
                   _peer_health, _stats, cycle_results, probe_log, skipped_log, cycles,
                   threadVars>>

\* a loop over peers_to_check that an exception of _check_peer ends
EndsOnRaise(peers, raised) == IF raised THEN <<>> ELSE Tail(peers)

\* the peers the loop over peers_to_check goes on with after a call of _check_peer:
\* the try around the call logs an exception
GoesOn(peers, raised) == Tail(peers)

\* what a call of _check_peer leaves behind
Checks(r) ==
    /\ _peer_health' = r.health
    /\ _stats' = r.stats
    /\ cycle_results' = r.results
    /\ probe_log' = probe_log \o r.probes
    /\ peers_to_check' = GoesOn(peers_to_check, r.raised)

\* one pass of the loop over peers_to_check; an exception of _check_peer is logged
CheckPeer(probe) ==
    /\ pc = "check"
    /\ peers_to_check # <<>>
    /\ Checks(_check_peer(_peer_health, _stats, cycle_results, Head(peers_to_check),
                          probe, Now))
    /\ UNCHANGED <<_interface_config, ini, disk, ret, store_failures, wg_configs, pc,
                   iface_idx, cmd_log, skipped_log, cycles, threadVars>>

\* the statistics update that ends _run_health_cycle, and its return: the locals of
\* the call are gone
CycleReturns ==
    /\ pc = "check"
    /\ peers_to_check = <<>>
    /\ _stats' = [_stats EXCEPT !.last_cycle_time = Datetime(Now),
                                !.last_cycle_duration_ms = DurationMs(probe_log)]
    /\ pc' = "idle"
    /\ iface_idx' = 1
    /\ cycle_results' = ZeroResults
    /\ probe_log' = <<>>
    /\ cmd_log' = <<>>
    /\ skipped_log' = {}
    /\ UNCHANGED <<_interface_config, ini, disk, ret, store_failures, wg_configs,
                   _peer_health, peers_to_check, cycles>>

CycleEnd == CycleReturns /\ UNCHANGED threadVars

\* the tunnel layer reports an interface anew.  A cycle reads the report of each
\* interface once, so a report that changes during a cycle is one that changed before it.
TunnelUpdate(interface, report) ==
    /\ pc = "idle"
    /\ cycles < MaxCycles
    /\ interface \in DOMAIN wg_configs
    /\ wg_configs[interface] # report
    /\ wg_configs' = [wg_configs EXCEPT ![interface] = report]
    /\ UNCHANGED <<_interface_config, ini, disk, ret, store_failures, _peer_health, _stats,
                   pc, iface_idx, peers_to_check, cycle_results, probe_log, cmd_log,
                   skipped_log, cycles, threadVars>>

----------------------------------------------------------------------------
(* A whole cycle, as the worker runs it *)

\* what the first loop of _run_health_cycle leaves behind, from interface k on;
\* raised tells that an exception of _extract_vpn_ip ended it
RECURSIVE CollectLoop(_, _, _, _, _)
RECURSIVE CollectUp(_, _, _)
CollectLoop(k, wg, cfgs, config, file) ==
    IF k > Len(IfaceOrder)
    THEN [cfgs |-> cfgs, ini |-> config, disk |-> file, peers |-> <<>>, cmds |-> <<>>,
          raised |-> FALSE]
    ELSE IF IfaceOrder[k] \notin DOMAIN wg \/ IsDown(wg[IfaceOrder[k]])
    THEN CollectLoop(k + 1, wg, cfgs, config, file)
    ELSE CollectUp(k, wg, GetInterfaceConfig(cfgs, config, file, IfaceOrder[k], "ok"))

\* the pass over an interface that is up, g being what get_interface_config did
CollectUp(k, wg, g) ==
    IF ~IsDisabled(g.value) /\ CollectRaises(wg[IfaceOrder[k]].Peers)
    THEN [cfgs |-> g.cfgs, ini |-> g.ini, disk |-> g.disk, peers |-> <<>>,
          cmds |-> IF g.value.set_keepalive
                   THEN _ensure_keepalive(IfaceOrder[k], wg[IfaceOrder[k]],
                                          g.value.keepalive_value, 0)
                   ELSE <<>>,
          raised |-> TRUE]
    ELSE [CollectLoop(k + 1, wg, g.cfgs, g.ini, g.disk) EXCEPT
            !.peers = (IF IsDisabled(g.value) THEN <<>>
                       ELSE CollectPeers(IfaceOrder[k], wg[IfaceOrder[k]].Peers)) \o @,
            !.cmds = (IF IsDisabled(g.value) \/ ~g.value.set_keepalive THEN <<>>
                      ELSE _ensure_keepalive(IfaceOrder[k], wg[IfaceOrder[k]],
                                             g.value.keepalive_value, 0)) \o @]

\* what the second loop of _run_health_cycle leaves behind, every probe being answered
RECURSIVE CheckLoop(_, _, _, _, _)
RECURSIVE CheckNext(_, _, _)
CheckLoop(peers, healths, stats, results, now) ==
    IF peers = <<>>
    THEN [health |-> healths, stats |-> stats, results |-> results, probes |-> <<>>]
    ELSE CheckNext(Tail(peers),
                   _check_peer(healths, stats, results, Head(peers), "alive", now), now)

CheckNext(peers, r, now) ==
    [CheckLoop(peers, r.health, r.stats, r.results, now) EXCEPT !.probes = r.probes \o @]

\* _run_health_cycle run to its end: c is what its first loop left, r its second
CycleOutcome(c, r, now) ==
    [cfgs |-> c.cfgs, ini |-> c.ini, disk |-> c.disk, cmds |-> c.cmds,
     health |-> r.health,
     stats |-> [r.stats EXCEPT !.last_cycle_time = Datetime(now),
                               !.last_cycle_duration_ms = DurationMs(r.probes)],
     results |-> r.results, raised |-> FALSE]

\* the second loop and the statistics update, which an exception of the first loop
\* leaves out
CycleChecked(c, healths, stats, now) ==
    IF c.raised
    THEN [cfgs |-> c.cfgs, ini |-> c.ini, disk |-> c.disk, cmds |-> c.cmds,
          health |-> healths, stats |-> stats, results |-> ZeroResults, raised |-> TRUE]
    ELSE CycleOutcome(c, CheckLoop(c.peers, healths, stats, ZeroResults, now), now)

_run_health_cycle(wg, cfgs, config, file, healths, stats, now) ==
    CycleChecked(CollectLoop(1, wg, cfgs, config, file), healths, stats, now)

----------------------------------------------------------------------------
(* The worker thread: start, stop and _monitor_loop *)

\* a thread as start() creates it: in the sleep that opens _monitor_loop
NewWorker == [pc |-> "warmup", min_interval |-> 0, remaining |-> 0, stopped |-> ""]

\* the sleep between two cycles, as _monitor_loop computes it from the values of
\* _interface_config
RECURSIVE MinIntervalLoop(_, _, _)
MinIntervalLoop(k, cfgs, min_interval) ==
    IF k > Len(IfaceOrder) THEN min_interval
    ELSE IF /\ IfaceOrder[k] \in DOMAIN cfgs
            /\ cfgs[IfaceOrder[k]].enabled
            /\ cfgs[IfaceOrder[k]].ping_interval < min_interval
    THEN MinIntervalLoop(k + 1, cfgs, cfgs[IfaceOrder[k]].ping_interval)
    ELSE MinIntervalLoop(k + 1, cfgs, min_interval)

MinInterval(cfgs) == MinIntervalLoop(1, cfgs, DefaultPingInterval)

start ==
    /\ ~_running
    /\ Len(workers) < MaxWorkers
    /\ _running' = TRUE
    /\ workers' = Append(workers, NewWorker)
    /\ UNCHANGED <<_interface_config, ini, disk, ret, store_failures, wg_configs,
                   _peer_health, _stats, pc, iface_idx, peers_to_check, cycle_results,
                   probe_log, cmd_log, skipped_log, cycles, forced, calls>>

\* the threads as a stop() call leaves them: none is touched; a thread found in a
\* cycle is marked with the position of that cycle, for the record
Marked(at) ==
    [w \in DOMAIN workers |->
        IF workers[w].pc = "run" THEN [workers[w] EXCEPT !.stopped = at] ELSE workers[w]]

\* a stop() that ends the cycle in flight with its thread
StopInterrupts ==
    /\ _running
    /\ _running' = FALSE
    /\ workers' = Marked(pc)
    /\ pc' = "idle"
    /\ peers_to_check' = <<>>
    /\ UNCHANGED <<_interface_config, ini, disk, ret, store_failures, wg_configs,
                   _peer_health, _stats, iface_idx, cycle_results, probe_log, cmd_log,
                   skipped_log, cycles, forced, calls>>

\* stop(): the flag falls; the join that follows waits five seconds at most and
\* changes nothing
stop ==
    /\ _running
    /\ _running' = FALSE
    /\ workers' = Marked(pc)
    /\ UNCHANGED <<_interface_config, ini, disk, ret, store_failures, wg_configs,
                   _peer_health, _stats, pc, iface_idx, peers_to_check, cycle_results,
                   probe_log, cmd_log, skipped_log, cycles, forced, calls>>

\* a step of worker w that changes nothing but its own position
Moves(w, to) ==
    /\ workers' = [workers EXCEPT ![w] = to]
    /\ UNCHANGED <<_interface_config, ini, disk, ret, store_failures, wg_configs,
                   _peer_health, _stats, pc, iface_idx, peers_to_check, cycle_results,
                   probe_log, cmd_log, skipped_log, cycles, _running, forced, calls>>

\* time.sleep(15) returns
WorkerWarmup(w) ==
    /\ workers[w].pc = "warmup"
    /\ Moves(w, [workers[w] EXCEPT !.pc = "while"])

\* while self._running
WorkerWhile(w) ==
    /\ workers[w].pc = "while"
    /\ _running => cycles < MaxCycles
    /\ Moves(w, [workers[w] EXCEPT !.pc = IF _running THEN "cycle" ELSE "done"])

\* what a cycle of the worker leaves behind
Cycled(w, c) ==
    /\ _interface_config' = c.cfgs
    /\ ini' = c.ini
    /\ disk' = c.disk
    /\ _peer_health' = c.health
    /\ _stats' = c.stats
    /\ cmd_log' = c.cmds
    /\ cycles' = cycles + 1
    /\ workers' = [workers EXCEPT ![w].pc = "interval"]

\* self._run_health_cycle(), an exception of which is logged
WorkerCycle(w) ==
    /\ workers[w].pc = "cycle"
    /\ pc = "idle"
    /\ Cycled(w, _run_health_cycle(wg_configs, _interface_config, ini, disk, _peer_health,
                                   _stats, 19 * 86400 + 12 * 3600 + (cycles + 1) * 60))
    /\ UNCHANGED <<ret, store_failures, wg_configs, pc, iface_idx, peers_to_check,
                   cycle_results, probe_log, skipped_log, _running, forced, calls>>

\* self._run_health_cycle() step by step: the thread enters the cycle
WorkerBegin(w) ==
    /\ workers[w].pc = "cycle"
    /\ CycleStarts
    /\ workers' = [workers EXCEPT ![w].pc = "run", ![w].stopped = ""]
    /\ UNCHANGED <<_running, forced, calls>>

\* the cycle of the thread returns, or the exception that ended it is logged
WorkerEnd(w) ==
    /\ workers[w].pc = "run"
    /\ IF pc = "idle"
       THEN UNCHANGED <<_interface_config, ini, disk, ret, store_failures, wg_configs,
                        _peer_health, _stats, pc, iface_idx, peers_to_check, cycle_results,
                        probe_log, cmd_log, skipped_log, cycles>>
       ELSE CycleReturns
    /\ workers' = [workers EXCEPT ![w].pc = "interval"]
    /\ UNCHANGED <<_running, forced, calls>>

\* the loop over self._interface_config.values() that computes min_interval
WorkerInterval(w) ==
    /\ workers[w].pc = "interval"
    /\ Moves(w, [workers[w] EXCEPT !.pc = "for",
                                   !.min_interval = MinInterval(_interface_config),
                                   !.remaining = MinInterval(_interface_config)])

\* The same loop beside other threads. iter() of the dict view remembers the size of
\* the dict (remaining holds it until the loop has ended), and the next() that finds
\* another size raises RuntimeError: no try is around the loop, so the exception
\* leaves _monitor_loop and the thread ends.
WorkerIter(w) ==
    /\ workers[w].pc = "interval"
    /\ Moves(w, [workers[w] EXCEPT !.pc = "values",
                                   !.remaining = Cardinality(DOMAIN _interface_config)])

WorkerNext(w) ==
    /\ workers[w].pc = "values"
    /\ Moves(w, IF Cardinality(DOMAIN _interface_config) # workers[w].remaining
                THEN [workers[w] EXCEPT !.pc = "raised"]
                ELSE [workers[w] EXCEPT !.pc = "for",
                                        !.min_interval = MinInterval(_interface_config),
                                        !.remaining = MinInterval(_interface_config)])

\* the loop without its break
WorkerForNoBreak(w) ==
    /\ workers[w].pc = "for"
    /\ Moves(w, [workers[w] EXCEPT
                    !.pc = IF workers[w].remaining = 0 THEN "while" ELSE "sleep"])

\* for _ in range(min_interval): if not self._running: break
WorkerFor(w) ==
    /\ workers[w].pc = "for"
    /\ Moves(w, [workers[w] EXCEPT
                    !.pc = IF workers[w].remaining = 0 \/ ~_running THEN "while"
                           ELSE "sleep"])

\* time.sleep(1) returns
WorkerSleep(w) ==
    /\ workers[w].pc = "sleep"
    /\ Moves(w, [workers[w] EXCEPT !.pc = "for", !.remaining = @ - 1])

----------------------------------------------------------------------------
(* force_cycle(): a cycle beside the worker's *)

\* what the first loop of the forced cycle leaves behind; its exception is raised to
\* the caller of force_cycle()
ForceCollected(c) ==
    /\ _interface_config' = c.cfgs
    /\ ini' = c.ini
    /\ disk' = c.disk
    /\ cmd_log' = cmd_log \o c.cmds
    /\ forced' = IF c.raised THEN [NoForce EXCEPT !.calls = forced.calls + 1]
                 ELSE [pc |-> "lookup", peers |-> c.peers, results |-> ZeroResults,
                       probes |-> <<>>, calls |-> forced.calls + 1]

\* force_cycle() up to the second loop of _run_health_cycle
ForceBegin ==
    /\ forced.pc = "idle"
    /\ forced.calls < MaxForced
    /\ ForceCollected(CollectLoop(1, wg_configs, _interface_config, ini, disk))
    /\ UNCHANGED <<ret, store_failures, wg_configs, _peer_health, _stats, pc, iface_idx,
                   peers_to_check, cycle_results, probe_log, skipped_log, cycles, _running,
                   workers, calls>>

\* _check_peer of the forced cycle, under the lock: the record is found or created
ForceLookup ==
    /\ forced.pc = "lookup"
    /\ forced.peers # <<>>
    /\ _peer_health' = GetOrCreate(_peer_health, Head(forced.peers))
    /\ forced' = [forced EXCEPT !.pc = "classify"]
    /\ UNCHANGED <<_interface_config, ini, disk, ret, store_failures, wg_configs, _stats, pc,
                   iface_idx, peers_to_check, cycle_results, probe_log, cmd_log, skipped_log,
                   cycles, _running, workers, calls>>

\* what the rest of the call leaves behind
ForceChecks(r) ==
    /\ _peer_health' = r.health
    /\ _stats' = r.stats
    /\ forced' = [forced EXCEPT !.pc = "lookup", !.peers = GoesOn(forced.peers, r.raised),
                                !.results = r.results, !.probes = @ \o r.probes]

\* _check_peer of the forced cycle, after the lock
ForceClassify(probe) ==
    /\ forced.pc = "classify"
    /\ ForceChecks(_check_peer(_peer_health, _stats, forced.results, Head(forced.peers),
                               probe, Now))
    /\ UNCHANGED <<_interface_config, ini, disk, ret, store_failures, wg_configs, pc,
                   iface_idx, peers_to_check, cycle_results, probe_log, cmd_log, skipped_log,
                   cycles, _running, workers, calls>>

\* the statistics update that ends the forced cycle, and its return
ForceEnd ==
    /\ forced.pc = "lookup"
    /\ forced.peers = <<>>
    /\ _stats' = [_stats EXCEPT !.last_cycle_time = Datetime(Now),
                                !.last_cycle_duration_ms = DurationMs(forced.probes)]
    /\ forced' = [NoForce EXCEPT !.calls = forced.calls]
    /\ UNCHANGED <<_interface_config, ini, disk, ret, store_failures, wg_configs,
                   _peer_health, pc, iface_idx, peers_to_check, cycle_results, probe_log,
                   cmd_log, skipped_log, cycles, _running, workers, calls>>

\* the dashboard deletes an interface: its entry leaves the dict the monitor shares
TunnelRemove(interface) ==
    /\ pc = "idle"
    /\ interface \in DOMAIN wg_configs
    /\ wg_configs' = [i \in DOMAIN wg_configs \ {interface} |-> wg_configs[i]]
    /\ UNCHANGED <<_interface_config, ini, disk, ret, store_failures, _peer_health, _stats,
                   pc, iface_idx, peers_to_check, cycle_results, probe_log, cmd_log,
                   skipped_log, cycles, threadVars>>

----------------------------------------------------------------------------
(* What the store holds at startup, what the tunnel layer reports, and what *)
(* the request layer asks                                                    *)

ServerSection == <<"Server", "">>

BaseStore ==
    [order |-> <<ServerSection>>,
     opts |-> Put(EmptyDict, ServerSection, Put(EmptyDict, "app_port", IntToStr(10086)))]

\* the store with one more section
WithSection(store, interface, options) ==
    [order |-> Append(store.order, SectionName(interface)),
     opts |-> Put(store.opts, SectionName(interface), options)]

Absent == "<absent>"

\* a section from a choice of texts, Absent meaning that the option is missing
Section(enabled, ping_interval, set_keepalive, keepalive_value) ==
    LET c == [enabled |-> enabled, ping_interval |-> ping_interval,
              set_keepalive |-> set_keepalive, keepalive_value |-> keepalive_value]
        a == [enabled |-> Absent, ping_interval |-> <<Absent>>,
              set_keepalive |-> Absent, keepalive_value |-> <<Absent>>]
    IN  [o \in {f \in DOMAIN c : c[f] # a[f]} |-> c[o]]

StoredSections ==
    {Section("True", IntToStr(1), Absent, IntToStr(999)),
     Section("false", IntToStr(999), "false", IntToStr(7)),
     Section(Absent, IntToStr(45), Absent, <<Absent>>),
     Section("yes", <<Absent>>, "TRUE", IntToStr(60)),
     Section(Absent, <<"a", "b", "c">>, Absent, <<Absent>>),
     Section("true", IntToStr(20), "true", <<>>)}

\* the stores the store model starts from: wg0 with one of these sections, then wg1
\* with none or a well-formed one
StartStores ==
    {BaseStore}
    \cup {WithSection(BaseStore, "wg0", o) : o \in StoredSections}
    \cup {WithSection(WithSection(BaseStore, "wg0", o), "wg1",
                      Section("true", IntToStr(60), "true", IntToStr(40))) :
              o \in StoredSections}

IntVal(n) == [t |-> "int", v |-> n]

\* a request dict from a choice of values: "T" and "F" for the booleans, Absent (or
\* the text Absent) meaning that the key is missing
Request(enabled, ping_interval, set_keepalive, keepalive_value) ==
    LET present == {o \in {"enabled"} : enabled # Absent}
                   \cup {o \in {"ping_interval"} : ping_interval # Str(Absent)}
                   \cup {o \in {"set_keepalive"} : set_keepalive # Absent}
                   \cup {o \in {"keepalive_value"} : keepalive_value # Str(Absent)}
    IN  [o \in present |->
            CASE o = "enabled" -> enabled = "T"
              [] o = "ping_interval" -> ping_interval
              [] o = "set_keepalive" -> set_keepalive = "T"
              [] OTHER -> keepalive_value]

\* the requests of the store model
StoreRequests ==
    {Request(Absent, IntVal(1), Absent, Str(Absent)),
     Request(Absent, IntVal(999), Absent, Str(Absent)),
     Request(Absent, Str(IntToStr(45)), Absent, Str(Absent)),
     Request(Absent, Str(Absent), Absent, IntVal(1)),
     Request(Absent, Str(Absent), Absent, IntVal(999)),
     Request("F", Str(<<"a", "b", "c">>), Absent, Str(Absent)),
     Request(Absent, Str(Absent), "F", None),
     Request("T", Str(Absent), "T", Str(Absent)),
     Request("F", IntVal(999), "F", IntVal(1))}

\* one peer as the tunnel layer reports it
Peer(id, name, allowed_ip, endpoint, latest_handshake, persistent_keepalive) ==
    [name |-> name, latest_handshake |-> latest_handshake, endpoint |-> endpoint,
     persistent_keepalive |-> persistent_keepalive, id |-> id, allowed_ip |-> allowed_ip]

Net(addr, plen) == [t |-> "net", plen |-> plen, addr |-> addr]

Pad2(n) == IF n < 10 THEN <<"0">> \o NatToStr(n) ELSE NatToStr(n)

\* str(timedelta(days, hours, minutes, seconds)), as the tunnel layer writes an age
TimedeltaStr(days, hours, minutes, seconds) ==
    (IF days = 0 THEN <<>>
     ELSE IntToStr(days) \o (IF days = 1 THEN <<" ", "d", "a", "y", ",", " ">>
                             ELSE <<" ", "d", "a", "y", "s", ",", " ">>))
    \o NatToStr(hours) \o <<":">> \o Pad2(minutes) \o <<":">> \o Pad2(seconds)

Endpoints == {"", "(none)", "198.51.100.7:51820", "203.0.113.9:4500"}

Handshakes ==
    {None,
     Str(<<"N", "o", " ", "H", "a", "n", "d", "s", "h", "a", "k", "e">>),
     Str(<<"s", "o", "o", "n">>),
     Str(TimedeltaStr(0, 0, 2, 59)),
     Str(TimedeltaStr(0, 0, 3, 0)),
     Str(TimedeltaStr(0, 0, 15, 0)),
     Str(TimedeltaStr(0, 0, 15, 1)),
     Str(TimedeltaStr(2, 1, 0, 0)),
     [t |-> "num", v |-> 19 * 86400 + 12 * 3600 - 540]}

Down == [status |-> FALSE, Protocol |-> "wg", Peers |-> <<>>]

\* the classification model: one peer on wg0, with any endpoint and any handshake
ClassifyReports ==
    {[status |-> TRUE, Protocol |-> "wg",
      Peers |-> <<Peer("pkA", "alice", <<Net("10.0.0.2", 32)>>, e, h, DefaultKeepalive)>>] :
        e \in Endpoints, h \in Handshakes}

\* the cycle model: two peers on wg0, and on wg1 a peer of its own or the key of wg0's
SystemReports(interface) ==
    IF interface = "wg0"
    THEN {[status |-> up, Protocol |-> "wg",
           Peers |-> <<Peer("pkA", "alice", <<Net("10.0.0.2", 32)>>, "198.51.100.7:51820",
                            Str(TimedeltaStr(0, 0, 2, 0)), k),
                       Peer("pkB", "", <<Net("10.0.1.0", 24), Net("10.0.0.3", 32)>>,
                            "(none)", None, 0)>>] :
              up \in BOOLEAN, k \in {0, DefaultKeepalive}}
    ELSE {[status |-> up, Protocol |-> "awg",
           Peers |-> <<Peer(id, "carol", <<[t |-> "bad"], Net("10.1.0.2", 32)>>,
                            "203.0.113.9:4500", Str(TimedeltaStr(0, 0, 10, 0)), 0)>>] :
              up \in BOOLEAN, id \in {"pkA", "pkC"}}

SystemRequests(interface) ==
    IF interface = "wg0"
    THEN {Request(e, Str(Absent), Absent, Str(Absent)) : e \in {"F", "T"}}
         \cup {Request(Absent, Str(Absent), s, Str(Absent)) : s \in {"F", "T"}}
    ELSE {Request(e, Str(Absent), Absent, Str(Absent)) : e \in {"F", "T"}}

----------------------------------------------------------------------------
(* The facade: get_peer_health, get_all_health, ping_peer_now *)

\* datetime.isoformat() of a time of January 2026, in whole seconds
IsoFormat(ts) ==
    <<"2", "0", "2", "6", "-", "0", "1", "-">> \o Pad2(ts \div 86400 + 1) \o <<"T">>
    \o Pad2((ts % 86400) \div 3600) \o <<":">> \o Pad2((ts % 3600) \div 60) \o <<":">>
    \o Pad2(ts % 60)

\* x.isoformat() if x else None
IsoOrNone(x) == IF x = None THEN None ELSE Str(IsoFormat(x.v))

\* round(n / d) to the nearest whole number, a tie going to the even one
RoundDiv(n, d) ==
    LET q == n \div d
        r == n % d
    IN  IF 2 * r > d \/ (2 * r = d /\ q % 2 = 1) THEN q + 1 ELSE q

\* _ping_success_rate, in tenths of a percent
_ping_success_rate(health) ==
    IF health.ping_success_count + health.ping_fail_count = 0 THEN 0
    ELSE RoundDiv(health.ping_success_count * 1000,
                  health.ping_success_count + health.ping_fail_count)

\* to_dict; the round-trip time is a whole number of milliseconds, which round(_, 2) keeps
to_dict(health) ==
    [public_key |-> health.public_key, vpn_ip |-> health.vpn_ip,
     interface |-> health.interface, name |-> health.name,
     is_pingable |-> health.is_pingable,
     last_ping_time |-> IsoOrNone(health.last_ping_time),
     last_ping_success |-> health.last_ping_success,
     ping_rtt_ms |-> health.ping_rtt_ms,
     ping_success_rate |-> _ping_success_rate(health),
     status |-> health.status,
     last_handshake |-> IsoOrNone(health.last_handshake),
     last_endpoint |-> health.last_endpoint,
     endpoint_changed |-> health.endpoint_changed]

\* a dict as a return value
Dict(d) == [t |-> "dict", v |-> d]

\* a lookup that answers for a key without a record as for a new one
GetPeerHealthDefault(healths, public_key) ==
    IF public_key \in DOMAIN healths THEN Dict(to_dict(healths[public_key]))
    ELSE Dict(to_dict(PeerHealthInfo(public_key, "", "", "")))

get_peer_health(healths, public_key) ==
    IF public_key \in DOMAIN healths THEN Dict(to_dict(healths[public_key])) ELSE None

\* an interface counts as active whether it is up or not
IsKnown(wg, iface_name) == iface_name \in DOMAIN wg

\* iface_name in self.wg_configs and wg_config.getStatus()
IsActive(wg, iface_name) == iface_name \in DOMAIN wg /\ wg[iface_name].status

\* result["peers"] of get_all_health
ActivePeers(healths, wg) ==
    [pk \in {k \in DOMAIN healths : IsActive(wg, healths[k].interface)} |->
        to_dict(healths[pk])]

\* the second loop of get_all_health from interface k on: the configuration it
\* creates and saves, and result["interfaces"]
RECURSIVE InterfaceLoop(_, _, _, _, _)
RECURSIVE InterfaceListed(_, _, _)
InterfaceLoop(k, wg, cfgs, config, file) ==
    IF k > Len(IfaceOrder)
    THEN [cfgs |-> cfgs, ini |-> config, disk |-> file, interfaces |-> EmptyDict]
    ELSE IF ~IsActive(wg, IfaceOrder[k]) THEN InterfaceLoop(k + 1, wg, cfgs, config, file)
    ELSE InterfaceListed(k, wg, GetInterfaceConfig(cfgs, config, file, IfaceOrder[k], "ok"))

InterfaceListed(k, wg, g) ==
    [InterfaceLoop(k + 1, wg, g.cfgs, g.ini, g.disk) EXCEPT
        !.interfaces = Put(@, IfaceOrder[k],
                           [enabled |-> g.value.enabled,
                            ping_interval |-> g.value.ping_interval,
                            set_keepalive |-> g.value.set_keepalive,
                            keepalive_value |-> g.value.keepalive_value,
                            interface_active |-> TRUE])]

\* get_all_health: l is what its second loop left behind
AllHealth(healths, wg, stats, running, l) ==
    [cfgs |-> l.cfgs, ini |-> l.ini, disk |-> l.disk,
     result |-> [peers |-> ActivePeers(healths, wg), interfaces |-> l.interfaces,
                 stats |-> stats, running |-> running]]

get_all_health(healths, wg, stats, running, cfgs, config, file) ==
    AllHealth(healths, wg, stats, running, InterfaceLoop(1, wg, cfgs, config, file))

\* the first three assignments of _update_peer_after_ping
PingFields(health, ping_result, now) ==
    [health EXCEPT !.last_ping_time = Datetime(now),
                   !.last_ping_success = ping_result.success,
                   !.ping_rtt_ms = ping_result.rtt_ms]

\* a read that takes the count of a record for that of a new one
CountLoadedFresh(health, ping_result) == 0

\* the count that `+= 1` reads
CountLoaded(health, ping_result) ==
    IF ping_result.success THEN health.ping_success_count ELSE health.ping_fail_count

\* a store of the count into both counters
CountStoredBoth(health, ping_result, loaded) ==
    [health EXCEPT !.ping_success_count = loaded + 1, !.ping_fail_count = loaded + 1]

\* the count that `+= 1` writes back
CountStored(health, ping_result, loaded) ==
    IF ping_result.success THEN [health EXCEPT !.ping_success_count = loaded + 1]
    ELSE [health EXCEPT !.ping_fail_count = loaded + 1]

\* a step of caller c that changes nothing of the monitor
Returns(c, call) ==
    /\ calls' = [calls EXCEPT ![c] = call]
    /\ UNCHANGED <<_interface_config, ini, disk, ret, store_failures, wg_configs,
                   _peer_health, _stats, pc, iface_idx, peers_to_check, cycle_results,
                   probe_log, cmd_log, skipped_log, cycles, _running, workers, forced>>

\* caller c may call: its last call has returned, and it has calls left
MayCall(c) == calls[c].pc = "returned" /\ calls[c].n < MaxRequests

\* a call as it begins
Calling(c, op, public_key) ==
    [NoRequest EXCEPT !.op = op, !.public_key = public_key, !.n = calls[c].n + 1]

GetPeerHealth(c, public_key) ==
    /\ MayCall(c)
    /\ Returns(c, [Calling(c, "get", public_key) EXCEPT
                      !.reply = get_peer_health(_peer_health, public_key)])

\* what get_all_health leaves behind
Listed(c, a) ==
    /\ _interface_config' = a.cfgs
    /\ ini' = a.ini
    /\ disk' = a.disk
    /\ calls' = [calls EXCEPT ![c] = [Calling(c, "all", "") EXCEPT !.reply = Dict(a.result)]]

GetAllHealth(c) ==
    /\ MayCall(c)
    /\ Listed(c, get_all_health(_peer_health, wg_configs, _stats, _running,
                                _interface_config, ini, disk))
    /\ UNCHANGED <<ret, store_failures, wg_configs, _peer_health, _stats, pc, iface_idx,
                   peers_to_check, cycle_results, probe_log, cmd_log, skipped_log, cycles,
                   _running, workers, forced>>

\* ping_peer_now under the lock: None for a key without a record
PingLookup(c, public_key) ==
    /\ MayCall(c)
    /\ Returns(c, IF public_key \in DOMAIN _peer_health
                  THEN [Calling(c, "ping", public_key) EXCEPT
                           !.pc = "probe", !.before = Dict(_peer_health[public_key])]
                  ELSE Calling(c, "ping", public_key))

\* self._do_ping(health.vpn_ip), as one step: the probe and the counting of it with no
\* step of another thread between them
PingProbe(c, probe) ==
    /\ calls[c].pc = "probe"
    /\ _stats' = _do_ping(_stats, probe).stats
    /\ calls' = [calls EXCEPT ![c].pc = "update",
                              ![c].result = _do_ping(_stats, probe).result,
                              ![c].sent = Append(@, _peer_health[calls[c].public_key].vpn_ip)]
    /\ UNCHANGED <<_interface_config, ini, disk, ret, store_failures, wg_configs,
                   _peer_health, pc, iface_idx, peers_to_check, cycle_results, probe_log,
                   cmd_log, skipped_log, cycles, _running, workers, forced>>

\* _do_ping step by step, each `self._stats[...] += 1` being a read of the counter and
\* a write of the value read plus one, between which other threads run.  First
\* icmp_ping returns or raises, and the first counter is read: total_pings, or
\* failed_pings in the except clause
PingIssue(c, probe) ==
    /\ calls[c].pc = "probe"
    /\ calls' = [calls EXCEPT
                    ![c].pc = "count",
                    ![c].result = _do_ping(_stats, probe).result,
                    ![c].sent = Append(@, _peer_health[calls[c].public_key].vpn_ip),
                    ![c].stat = IF probe = "raise" THEN "failed_pings" ELSE "total_pings",
                    ![c].loaded = IF probe = "raise" THEN _stats.failed_pings
                                  ELSE _stats.total_pings]
    /\ UNCHANGED <<_interface_config, ini, disk, ret, store_failures, wg_configs,
                   _peer_health, _stats, pc, iface_idx, peers_to_check, cycle_results,
                   probe_log, cmd_log, skipped_log, cycles, _running, workers, forced>>

\* the write of the counter read; after total_pings comes the counter of the outcome,
\* after that the return of the result dict
PingCount(c) ==
    /\ calls[c].pc = "count"
    /\ _stats' = [_stats EXCEPT ![calls[c].stat] = calls[c].loaded + 1]
    /\ calls' = [calls EXCEPT
                    ![c].pc = IF calls[c].stat = "total_pings" THEN "outcome" ELSE "update"]
    /\ UNCHANGED <<_interface_config, ini, disk, ret, store_failures, wg_configs,
                   _peer_health, pc, iface_idx, peers_to_check, cycle_results, probe_log,
                   cmd_log, skipped_log, cycles, _running, workers, forced>>

\* if result.is_alive: the read of successful_pings, or of failed_pings
PingOutcome(c) ==
    /\ calls[c].pc = "outcome"
    /\ calls' = [calls EXCEPT
                    ![c].pc = "count",
                    ![c].stat = IF calls[c].result.success THEN "successful_pings"
                                ELSE "failed_pings",
                    ![c].loaded = IF calls[c].result.success THEN _stats.successful_pings
                                  ELSE _stats.failed_pings]
    /\ UNCHANGED <<_interface_config, ini, disk, ret, store_failures, wg_configs,
                   _peer_health, _stats, pc, iface_idx, peers_to_check, cycle_results,
                   probe_log, cmd_log, skipped_log, cycles, _running, workers, forced>>

\* the calls after a write to the record of caller c's peer: another call on that
\* peer, begun and not returned, is no longer alone with it
Written(c, call) ==
    [d \in Callers |->
        IF d = c THEN call
        ELSE IF calls[d].pc # "returned" /\ calls[d].public_key = calls[c].public_key
        THEN [calls[d] EXCEPT !.alone = FALSE]
        ELSE calls[d]]

\* _update_peer_after_ping up to the read of the count
PingUpdate(c) ==
    /\ calls[c].pc = "update"
    /\ _peer_health' = [_peer_health EXCEPT
                           ![calls[c].public_key] = PingFields(@, calls[c].result, Now)]
    /\ calls' = Written(c, [calls[c] EXCEPT
                               !.pc = "store",
                               !.loaded = CountLoaded(_peer_health[calls[c].public_key],
                                                      calls[c].result)])
    /\ UNCHANGED <<_interface_config, ini, disk, ret, store_failures, wg_configs, _stats, pc,
                   iface_idx, peers_to_check, cycle_results, probe_log, cmd_log, skipped_log,
                   cycles, _running, workers, forced>>

\* what the end of ping_peer_now leaves behind: health is the record with its count
Stored(c, health) ==
    /\ _peer_health' = [_peer_health EXCEPT ![calls[c].public_key] = health]
    /\ calls' = Written(c, [calls[c] EXCEPT !.pc = "returned",
                                            !.reply = Dict(to_dict(health))])

\* the write of the count, and the return of health.to_dict()
PingStore(c) ==
    /\ calls[c].pc = "store"
    /\ Stored(c, CountStored(_peer_health[calls[c].public_key], calls[c].result,
                             calls[c].loaded))
    /\ UNCHANGED <<_interface_config, ini, disk, ret, store_failures, wg_configs, _stats, pc,
                   iface_idx, peers_to_check, cycle_results, probe_log, cmd_log, skipped_log,
                   cycles, _running, workers, forced>>

----------------------------------------------------------------------------
(* set_interface_config beside a cycle *)

\* the fields set_interface_config assigns, in the order of its statements
ConfigFields == <<"enabled", "ping_interval", "set_keepalive", "keepalive_value">>

\* where a set call is after the statement of the given field
AfterField(field) ==
    CASE field = "enabled" -> "ping_interval"
      [] field = "ping_interval" -> "set_keepalive"
      [] field = "set_keepalive" -> "keepalive_value"
      [] OTHER -> "save"

\* the request dict with at most the given key
Only(config, field) == [o \in DOMAIN config \cap {field} |-> config[o]]

\* set_interface_config, called while a cycle runs, up to its first assignment: cfg is
\* the entry of the interface, the object the cycle reads
SetBegins(c, interface, config) ==
    /\ MayCall(c)
    /\ pc # "idle"
    /\ ret.op = "none"                             \* ret holds the arguments of the one call
    /\ interface \in DOMAIN _interface_config
    /\ calls' = [calls EXCEPT ![c] = [Calling(c, "set", "") EXCEPT
                                         !.pc = "enabled",
                                         !.before = Dict(_interface_config[interface])]]
    /\ ret' = [op |-> "set", interface |-> interface, args |-> config, created |-> FALSE,
               save |-> "none", value |-> FALSE, config |-> _interface_config[interface]]
    /\ UNCHANGED <<_interface_config, ini, disk, store_failures, wg_configs, _peer_health,
                   _stats, pc, iface_idx, peers_to_check, cycle_results, probe_log, cmd_log,
                   skipped_log, cycles, _running, workers, forced>>

\* one of the four statements `if key in config: cfg.key = ...`: no lock is held, and
\* an int() that raises ends the call with False
SetWrites(c) ==
    /\ calls[c].op = "set"
    /\ calls[c].pc \in {ConfigFields[i] : i \in DOMAIN ConfigFields}
    /\ _interface_config' =
           Put(_interface_config, ret.interface,
               ApplyConfig(_interface_config, ret.interface,
                           Only(ret.args, calls[c].pc)).cfg)
    /\ calls' = [calls EXCEPT ![c].pc =
                    IF ApplyConfig(_interface_config, ret.interface,
                                   Only(ret.args, calls[c].pc)).raised
                    THEN "returned" ELSE AfterField(calls[c].pc)]
    /\ UNCHANGED <<ini, disk, ret, store_failures, wg_configs, _peer_health, _stats, pc,
                   iface_idx, peers_to_check, cycle_results, probe_log, cmd_log,
                   skipped_log, cycles, _running, workers, forced>>

\* the save that ends set_interface_config, and its return
SetSaves(c, outcome) ==
    /\ calls[c].op = "set"
    /\ calls[c].pc = "save"
    /\ StoreMay(outcome)
    /\ ini' = _save_interface_config_to_ini(_interface_config, ini, disk, ret.interface,
                                             outcome).ini
    /\ disk' = _save_interface_config_to_ini(_interface_config, ini, disk, ret.interface,
                                              outcome).disk
    /\ store_failures' = Failures(TRUE, outcome)
    /\ ret' = [ret EXCEPT !.save = outcome, !.value = TRUE,
                          !.config = _interface_config[ret.interface]]
    /\ calls' = [calls EXCEPT ![c].pc = "returned"]
    /\ UNCHANGED <<_interface_config, wg_configs, _peer_health, _stats, pc, iface_idx,
                   peers_to_check, cycle_results, probe_log, cmd_log, skipped_log, cycles,
                   _running, workers, forced>>

\* get_interface_config beside other calls, statement by statement: the test
\* `interface not in self._interface_config` finds no entry (the interface is the key
\* of the call) ...
GetMisses(c, interface) ==
    /\ MayCall(c)
    /\ interface \notin DOMAIN _interface_config
    /\ Returns(c, [Calling(c, "config", interface) EXCEPT !.pc = "create"])

\* ... and the default entry is assigned and saved, whatever the dict holds by now
GetCreates(c, outcome) ==
    /\ calls[c].op = "config"
    /\ calls[c].pc = "create"
    /\ StoreMay(outcome)
    /\ _interface_config' =
           Put(_interface_config, calls[c].public_key, InterfaceHealthConfig)
    /\ ini' = _save_interface_config_to_ini(_interface_config', ini, disk,
                                            calls[c].public_key, outcome).ini
    /\ disk' = _save_interface_config_to_ini(_interface_config', ini, disk,
                                             calls[c].public_key, outcome).disk
    /\ ret' = [op |-> "get", interface |-> calls[c].public_key, args |-> EmptyDict,
               created |-> TRUE, save |-> outcome, value |-> TRUE,
               config |-> InterfaceHealthConfig]
    /\ store_failures' = Failures(TRUE, outcome)
    /\ calls' = [calls EXCEPT ![c].pc = "returned"]
    /\ UNCHANGED <<wg_configs, _peer_health, _stats, pc, iface_idx, peers_to_check,
                   cycle_results, probe_log, cmd_log, skipped_log, cycles, _running,
                   workers, forced>>

----------------------------------------------------------------------------
(* The specifications *)

\* the monitor after __init__, on a given store and under given reports
InitOn(stores, reports) ==
    /\ disk \in stores
    /\ ini = disk
    /\ _interface_config = _load_config_from_ini(disk)
    /\ ret = NoCall
    /\ store_failures = 0
    /\ wg_configs \in reports
    /\ _peer_health = EmptyDict
    /\ _stats = ZeroStats
    /\ pc = "idle"
    /\ iface_idx = 1
    /\ peers_to_check = <<>>
    /\ cycle_results = ZeroResults
    /\ probe_log = <<>>
    /\ cmd_log = <<>>
    /\ skipped_log = {}
    /\ cycles = 0
    /\ _running = FALSE
    /\ workers = <<>>
    /\ forced = NoForce
    /\ calls = [c \in Callers |-> NoRequest]

\* the cycles of the monitor, its configuration calls and the tunnel layer
Init ==
    InitOn({BaseStore},
           {r \in [Interfaces -> UNION {SystemReports(i) : i \in Interfaces}] :
                \A i \in Interfaces : r[i] \in SystemReports(i)})

Next ==
    \/ CycleBegin
    \/ \E raiseAt \in 0..2 : CollectInterface("ok", raiseAt)
    \/ CheckPeer("alive")
    \/ CycleEnd
    \/ \E i \in Interfaces : \E report \in SystemReports(i) : TunnelUpdate(i, report)
    \/ \E i \in Interfaces : \E config \in SystemRequests(i) : SetInterfaceConfig(i, config, "ok")

Spec == Init /\ [][Next]_vars

\* the classification of one peer over successive cycles
InitClassify == InitOn({BaseStore}, {[i \in Interfaces |-> IF i = "wg0" THEN r ELSE Down] :
                                         r \in ClassifyReports})

NextClassify ==
    \/ CycleBegin
    \/ CollectInterface("ok", 0)
    \/ \E probe \in ProbeOutcomes : CheckPeer(probe)
    \/ CycleEnd
    \/ \E report \in ClassifyReports : TunnelUpdate("wg0", report)

SpecClassify == InitClassify /\ [][NextClassify]_vars

\* the configuration calls on any store
InitStore == InitOn(StartStores, {[i \in Interfaces |-> Down]})

NextStore ==
    \/ \E config \in StoreRequests : \E outcome \in SaveOutcomes :
           SetInterfaceConfig("wg0", config, outcome)
    \/ \E i \in Interfaces : \E outcome \in SaveOutcomes : GetInterfaceConfigCall(i, outcome)

SpecStore == InitStore /\ [][NextStore]_vars


\* the worker thread under start and stop calls, wg0 being up: the store holds no
\* section of wg0 or one of these, and no section of wg1 or one with a longer interval
WorkerSections ==
    {Section("true", IntToStr(10), "false", <<Absent>>),
     Section("true", IntToStr(60), "false", <<Absent>>),
     Section("false", IntToStr(20), "false", <<Absent>>)}

WorkerStores ==
    LET wg0 == {BaseStore} \cup {WithSection(BaseStore, "wg0", o) : o \in WorkerSections}
    IN  wg0 \cup {WithSection(st, "wg1", Section("true", IntToStr(45), "false", <<Absent>>)) :
                      st \in wg0}

InitWorker ==
    InitOn(WorkerStores,
           {[i \in Interfaces |-> IF i = "wg0" THEN r ELSE Down] :
                r \in {q \in SystemReports("wg0") :
                           q.status /\ q.Peers[1].persistent_keepalive = 0}})

NextWorker ==
    \/ start
    \/ stop
    \/ \E w \in 1..Len(workers) : WorkerWarmup(w)
    \/ \E w \in 1..Len(workers) : WorkerWhile(w)
    \/ \E w \in 1..Len(workers) : WorkerCycle(w)
    \/ \E w \in 1..Len(workers) : WorkerInterval(w)
    \/ \E w \in 1..Len(workers) : WorkerFor(w)
    \/ \E w \in 1..Len(workers) : WorkerSleep(w)

SpecWorker == InitWorker /\ [][NextWorker]_vars

\* a step of thread w between two cycles: a slice of the sleep, or a loop test
WorkerIdles(w) ==
    /\ w \in 1..Len(workers)
    /\ \/ WorkerWhile(w)
       \/ WorkerFor(w)
       \/ WorkerSleep(w)

\* a thread between two cycles does run: its sleep returns, its loop test is evaluated
SpecWorkerLive == SpecWorker /\ \A w \in 1..MaxWorkers : WF_vars(WorkerIdles(w))


\* a scheduled cycle and a forced one, side by side: wg0 with two peers, the first of
\* which may report a handshake that the parser raises on, and wg1 down or with the
\* key of wg0's first peer
ForceReports(interface) ==
    IF interface = "wg0"
    THEN {[status |-> TRUE, Protocol |-> "wg",
           Peers |-> <<Peer("pkA", "alice", <<Net("10.0.0.2", 32)>>, "198.51.100.7:51820",
                            h, DefaultKeepalive),
                       Peer("pkB", "", <<Net("10.0.0.3", 32)>>, "203.0.113.9:4500",
                            Str(TimedeltaStr(0, 0, 10, 0)), DefaultKeepalive)>>] :
              h \in {Str(TimedeltaStr(0, 0, 2, 0)), Str(<<"i", "n", "f">>)}}
    ELSE {Down,
          [status |-> TRUE, Protocol |-> "wg",
           Peers |-> <<Peer("pkA", "carol", <<Net("10.1.0.2", 32)>>, "203.0.113.9:4500",
                            Str(TimedeltaStr(0, 0, 10, 0)), DefaultKeepalive)>>]}

InitForce ==
    InitOn({BaseStore},
           {r \in [Interfaces -> UNION {ForceReports(i) : i \in Interfaces}] :
                \A i \in Interfaces : r[i] \in ForceReports(i)})

NextForce ==
    \/ CycleBegin
    \/ CollectInterface("ok", 0)
    \/ \E probe \in {"alive", "dead"} : CheckPeer(probe)
    \/ CycleEnd
    \/ \E report \in ForceReports("wg0") : TunnelUpdate("wg0", report)
    \/ ForceBegin
    \/ ForceLookup
    \/ ForceClassify("alive")
    \/ ForceEnd

SpecForce == InitForce /\ [][NextForce]_vars


\* the facade between cycles: wg0 up or down with two peers, wg1 with one, either of
\* which the dashboard may delete
FacadeReports(interface) ==
    IF interface = "wg0"
    THEN {[status |-> up, Protocol |-> "wg",
           Peers |-> <<Peer("pkA", "alice", <<Net("10.0.0.2", 32)>>, "198.51.100.7:51820",
                            Str(TimedeltaStr(0, 0, 2, 0)), DefaultKeepalive),
                       Peer("pkB", "", <<Net("10.0.0.3", 32)>>, "(none)", None,
                            DefaultKeepalive)>>] : up \in BOOLEAN}
    ELSE {[status |-> TRUE, Protocol |-> "wg",
           Peers |-> <<Peer("pkC", "carol", <<Net("10.1.0.2", 32)>>, "203.0.113.9:4500",
                            Str(TimedeltaStr(2, 1, 0, 0)), DefaultKeepalive)>>]}

\* the keys the callers ask for: pkD is the key of no peer
FacadeKeys == {"pkA", "pkC", "pkD"}

InitFacade ==
    InitOn({BaseStore},
           {r \in [Interfaces -> UNION {FacadeReports(i) : i \in Interfaces}] :
                \A i \in Interfaces : r[i] \in FacadeReports(i) /\ r[i].status})

\* no call of the facade is under way
Quiet == \A c \in Callers : calls[c].pc = "returned"

NextFacade ==
    \/ CycleBegin /\ Quiet
    \/ CollectInterface("ok", 0)
    \/ CheckPeer("alive")
    \/ CycleEnd
    \/ \E report \in FacadeReports("wg0") : TunnelUpdate("wg0", report)
    \/ TunnelRemove("wg1")
    \/ \E c \in Callers : \E k \in FacadeKeys : pc = "idle" /\ GetPeerHealth(c, k)
    \/ \E c \in Callers : pc = "idle" /\ GetAllHealth(c)
    \/ \E c \in Callers : \E k \in FacadeKeys : pc = "idle" /\ PingLookup(c, k)
    \/ \E c \in Callers : \E probe \in {"alive", "dead"} : PingProbe(c, probe)
    \/ \E c \in Callers : PingUpdate(c)
    \/ \E c \in Callers : PingStore(c)

SpecFacade == InitFacade /\ [][NextFacade]_vars


\* the allowed-address lists of a peer: empty, one host, several hosts, a text that
\* ip_network rejects, and the network of all addresses, in several orders
AllowedLists ==
    {<<>>,
     <<Net("10.0.0.2", 32)>>,
     <<Net("10.0.1.0", 24)>>,
     <<Net("10.0.2.0", 31)>>,
     <<[t |-> "bad"]>>,
     <<[t |-> "bad"], Net("10.0.1.0", 24), Net("10.0.0.3", 32), Net("10.0.0.4", 32)>>,
     <<Net("10.0.1.0", 24), [t |-> "bad"]>>,
     <<[t |-> "wide"], Net("10.0.0.2", 32)>>,
     <<Net("10.0.0.2", 32), [t |-> "wide"]>>}

\* the collection model: wg0 up with two peers, the first with any of these lists
CollectReports ==
    {[status |-> TRUE, Protocol |-> "wg",
      Peers |-> <<Peer("pkA", "alice", a, "198.51.100.7:51820",
                       Str(TimedeltaStr(0, 0, 2, 0)), DefaultKeepalive),
                  Peer("pkB", "bob", b, "203.0.113.9:4500",
                       Str(TimedeltaStr(0, 0, 10, 0)), DefaultKeepalive)>>] :
        a \in AllowedLists, b \in {<<Net("10.0.0.9", 32)>>, <<Net("10.0.1.0", 24)>>}}

InitCollect == InitOn({BaseStore}, {[i \in Interfaces |-> IF i = "wg0" THEN r ELSE Down] :
                                        r \in CollectReports})

NextCollect ==
    \/ CycleBegin
    \/ CollectInterface("ok", 0)
    \/ \E probe \in {"alive", "dead"} : CheckPeer(probe)
    \/ CycleEnd
    \/ \E report \in CollectReports : TunnelUpdate("wg0", report)

SpecCollect == InitCollect /\ [][NextCollect]_vars


\* the ages the tunnel layer reports, in seconds: around the two thresholds, and with
\* one and with several days
ParseDurations ==
    {0, 54, 179, 180, 900, 901, 86400 + 20 * 3600 + 38 * 60 + 48,
     2 * 86400 + 3600 + 23 * 60 + 45}

\* str(timedelta(seconds=d))
DurationStr(d) ==
    TimedeltaStr(d \div 86400, (d % 86400) \div 3600, (d % 3600) \div 60, d % 60)

\* the moments that lie these ages before the first cycle
ParseTimestamps == {19 * 86400 + 12 * 3600 + 60 - d : d \in ParseDurations}

\* a moment as the tunnel layer may report it: datetime.isoformat() of a naive or of
\* an aware datetime, time.time() as a number or as its text, or the datetime itself
TimestampForms == {"iso", "iso+00:00", "num", "numstr", "datetime", "datetime+00:00"}

EncodeTimestamp(form, ts) ==
    CASE form = "iso" -> Str(IsoFormat(ts))
      [] form = "iso+00:00" -> Str(IsoFormat(ts) \o <<"+", "0", "0", ":", "0", "0">>)
      [] form = "num" -> [t |-> "num", v |-> ts]
      [] form = "numstr" -> Str(IntToStr(ts))
      [] form = "datetime" -> Datetime(ts)
      [] OTHER -> [Datetime(ts) EXCEPT !.aware = TRUE]

\* texts in none of the accepted forms: a word, a time of two parts, and the text
\* that float() reads as infinity
Unaccepted == {<<"s", "o", "o", "n">>, <<"1", "2", ":", "3", "0">>, <<"i", "n", "f">>}

\* the parser model: one peer on wg0, reporting its handshake in any of these forms
ParseReports ==
    {[status |-> TRUE, Protocol |-> "wg",
      Peers |-> <<Peer("pkA", "alice", <<Net("10.0.0.2", 32)>>, "198.51.100.7:51820", h,
                       DefaultKeepalive)>>] :
        h \in {Str(DurationStr(d)) : d \in ParseDurations}
               \cup {EncodeTimestamp(f, ts) : f \in TimestampForms, ts \in ParseTimestamps}
               \cup {Str(s) : s \in Sentinels \cup Unaccepted}}

InitParse == InitOn({BaseStore}, {[i \in Interfaces |-> IF i = "wg0" THEN r ELSE Down] :
                                      r \in ParseReports})

NextParse ==
    \/ CycleBegin
    \/ CollectInterface("ok", 0)
    \/ CheckPeer("alive")
    \/ CycleEnd
    \/ \E report \in ParseReports : TunnelUpdate("wg0", report)

SpecParse == InitParse /\ [][NextParse]_vars


\* forced probes beside the cycles: wg0 up with its two peers, both with a handshake
\* that has them probed
StatsReports ==
    {[status |-> TRUE, Protocol |-> "wg",
      Peers |-> <<Peer("pkA", "alice", <<Net("10.0.0.2", 32)>>, "198.51.100.7:51820",
                       Str(TimedeltaStr(0, 0, 2, 0)), DefaultKeepalive),
                  Peer("pkB", "bob", <<Net("10.0.0.3", 32)>>, "203.0.113.9:4500",
                       Str(TimedeltaStr(0, 0, 10, 0)), DefaultKeepalive)>>]}

InitStats == InitOn({BaseStore}, {[i \in Interfaces |-> IF i = "wg0" THEN r ELSE Down] :
                                      r \in StatsReports})

NextStats ==
    \/ CycleBegin
    \/ CollectInterface("ok", 0)
    \/ CheckPeer("dead")
    \/ CycleEnd
    \/ \E c \in Callers : PingLookup(c, "pkA")
    \/ \E c \in Callers : \E probe \in {"alive", "raise"} : PingIssue(c, probe)
    \/ \E c \in Callers : PingCount(c)
    \/ \E c \in Callers : PingOutcome(c)
    \/ \E c \in Callers : PingUpdate(c)
    \/ \E c \in Callers : PingStore(c)

SpecStats == InitStats /\ [][NextStats]_vars


\* the worker thread with its cycle step by step, under start and stop calls: wg0 up
\* with two peers and an interval of ten seconds; a thread enters its cycle when no
\* other is in one
StopStores == {WithSection(BaseStore, "wg0", Section("true", IntToStr(10), "false", <<Absent>>))}

InitStop == InitOn(StopStores, {[i \in Interfaces |-> IF i = "wg0" THEN r ELSE Down] :
                                    r \in StatsReports})

NextStop ==
    \/ start
    \/ stop
    \/ \E w \in 1..Len(workers) : WorkerWarmup(w)
    \/ \E w \in 1..Len(workers) : WorkerWhile(w)
    \/ \E w \in 1..Len(workers) : WorkerBegin(w)
    \/ CollectInterface("ok", 0)
    \/ CheckPeer("alive")
    \/ \E w \in 1..Len(workers) : WorkerEnd(w)
    \/ \E w \in 1..Len(workers) : WorkerInterval(w)
    \/ \E w \in 1..Len(workers) : WorkerFor(w)
    \/ \E w \in 1..Len(workers) : WorkerSleep(w)

SpecStop == InitStop /\ [][NextStop]_vars

\* A configuration call beside a cycle: wg0 is up with two peers and has an entry in
\* the store, and one set_interface_config call is made while the cycle runs.
ConfigStores ==
    {WithSection(BaseStore, "wg0", Section("true", IntToStr(30), k, IntToStr(25))) :
         k \in {"true", "false"}}

ConfigRequests ==
    {Request("T", Str(Absent), "T", IntVal(60)),
     Request(Absent, Str(Absent), "T", IntVal(60)),
     Request("F", Str(Absent), "F", Str(Absent)),
     Request(Absent, IntVal(20), Absent, IntVal(40))}

InitConfig == InitOn(ConfigStores, {[i \in Interfaces |-> IF i = "wg0" THEN r ELSE Down] :
                                       r \in StatsReports})

NextConfig ==
    \/ CycleBegin
    \/ PassEnabled
    \/ PassKeepalive
    \/ PassEnforce
    \/ CheckPeer("alive")
    \/ CycleEnd
    \/ \E config \in ConfigRequests : SetBegins(1, "wg0", config)
    \/ SetWrites(1)
    \/ SetSaves(1, "ok")

SpecConfig == InitConfig /\ [][NextConfig]_vars

\* get_interface_config and set_interface_config side by side on wg1, of which the
\* store has no section
InitRace == InitOn({BaseStore}, {[i \in Interfaces |-> Down]})

NextRace ==
    \/ \E config \in StoreRequests : \E outcome \in SaveOutcomes :
           SetInterfaceConfig("wg1", config, outcome)
    \/ \E c \in Callers : GetMisses(c, "wg1")
    \/ \E c \in Callers : \E outcome \in SaveOutcomes : GetCreates(c, outcome)

SpecRace == InitRace /\ [][NextRace]_vars

\* the counters of a cycle, scheduled or forced: wg0 is up with two peers, each with no
\* handshake, a fresh, a recent or an old one, or one that the parser raises on
ResultHandshakes ==
    {None, Str(TimedeltaStr(0, 0, 2, 0)), Str(TimedeltaStr(0, 0, 10, 0)),
     Str(TimedeltaStr(2, 1, 0, 0)), Str(<<"i", "n", "f">>)}

ResultReports ==
    {[status |-> TRUE, Protocol |-> "wg",
      Peers |-> <<Peer("pkA", "alice", <<Net("10.0.0.2", 32)>>, "198.51.100.7:51820", a,
                       DefaultKeepalive),
                  Peer("pkB", "bob", <<Net("10.0.0.3", 32)>>, "203.0.113.9:4500", b,
                       DefaultKeepalive)>>] :
        a \in ResultHandshakes, b \in ResultHandshakes}

InitResult == InitOn({BaseStore}, {[i \in Interfaces |-> IF i = "wg0" THEN r ELSE Down] :
                                       r \in ResultReports})

NextResult ==
    \/ CycleBegin
    \/ CollectInterface("ok", 0)
    \/ \E probe \in ProbeOutcomes : CheckPeer(probe)
    \/ CycleEnd
    \/ ForceBegin
    \/ ForceLookup
    \/ \E probe \in {"alive", "dead"} : ForceClassify(probe)
    \/ ForceEnd

SpecResult == InitResult /\ [][NextResult]_vars

\* The worker beside a facade call that asks for the configuration of wg1, which
\* has no entry: the store holds one for wg0, which is up, and the monitor is started
\* and stopped at will.
InitIter == InitOn(StopStores, {[i \in Interfaces |-> IF i = "wg0" THEN r ELSE Down] :
                                     r \in StatsReports})

NextIter ==
    \/ start
    \/ stop
    \/ \E w \in DOMAIN workers : WorkerWarmup(w)
    \/ \E w \in DOMAIN workers : WorkerWhile(w)
    \/ \E w \in DOMAIN workers : WorkerBegin(w)
    \/ CollectInterface("ok", 0)
    \/ CheckPeer("alive")
    \/ \E w \in DOMAIN workers : WorkerEnd(w)
    \/ \E w \in DOMAIN workers : WorkerIter(w)
    \/ \E w \in DOMAIN workers : WorkerNext(w)
    \/ \E w \in DOMAIN workers : WorkerFor(w)
    \/ \E w \in DOMAIN workers : WorkerSleep(w)
    \/ GetInterfaceConfigCall("wg1", "ok")

SpecIter == InitIter /\ [][NextIter]_vars

----------------------------------------------------------------------------
(* The configuration store: properties of SpecStore *)

InRange(cfg) ==
    /\ cfg.ping_interval \in PingIntervalMin..PingIntervalMax
    /\ cfg.keepalive_value \in KeepaliveMin..KeepaliveMax

\* the bound nearest to n, or n when it lies within the bounds
Nearest(lo, hi, n) == IF n < lo THEN lo ELSE IF n > hi THEN hi ELSE n

\* the requested integer of a set call, where the request names the option and
\* int() accepts it
Requested(option) ==
    IF ret.op = "set" /\ option \in DOMAIN ret.args THEN PyInt(ret.args[option])
    ELSE [ok |-> FALSE, v |-> 0]

\* C6: after the startup load and after any sequence of get and set calls, every
\* in-memory config has its probe interval in [10, 300] and its keepalive value in
\* [10, 120]; a set call stores, for each integer it was given, the integer itself
\* when it lies in the range and the nearest bound otherwise.
C6_ClampedToRange ==
    /\ \A i \in DOMAIN _interface_config : InRange(_interface_config[i])
    /\ ret.op = "set" =>
          LET cfg == _interface_config[ret.interface]
              pi == Requested("ping_interval")
              kv == Requested("keepalive_value")
          IN  /\ pi.ok => cfg.ping_interval = Nearest(PingIntervalMin, PingIntervalMax, pi.v)
              /\ (kv.ok /\ ret.value) =>
                     cfg.keepalive_value = Nearest(KeepaliveMin, KeepaliveMax, kv.v)

\* a set call was given the keepalive value 999 and stored 120, and the probe interval
\* stayed what an earlier call, given 1, had made it: 10
C6_Witness ==
    /\ ret.op = "set"
    /\ "keepalive_value" \in DOMAIN ret.args
    /\ ret.args["keepalive_value"] = IntVal(999)
    /\ _interface_config[ret.interface].keepalive_value = 120
    /\ _interface_config[ret.interface].ping_interval = 10

\* C7 as the specification states it: a set call whose write to the store fails
\* reports failure to its caller, and the values it was given are in memory.
C7_FailedWriteReported ==
    (ret.op = "set" /\ ret.save \in {"false", "raise"}) =>
        /\ ret.value = FALSE
        /\ \A o \in DOMAIN ret.args \cap {"enabled", "set_keepalive"} :
               _interface_config[ret.interface][o] = ret.args[o]

\* the section of an interface in a store, read back on its own
SectionConfig(config, interface) == LoadSection(config.opts[SectionName(interface)]).cfg

\* the four texts a config is persisted as
Persisted(cfg) ==
    [enabled |-> BoolToStr(cfg.enabled), ping_interval |-> IntToStr(cfg.ping_interval),
     set_keepalive |-> BoolToStr(cfg.set_keepalive),
     keepalive_value |-> IntToStr(cfg.keepalive_value)]

\* the last call was a get that materialized a config, or a set that returned true,
\* and its write to the store succeeded
WroteThrough ==
    /\ ret.save = "ok"
    /\ \/ ret.op = "get" /\ ret.created
       \/ ret.op = "set"

\* C8 as the specification states it: after a get that materialized a config or a
\* successful set, with a working store, the persisted section of the interface holds
\* exactly the four in-memory values, and loading the store again gives the same
\* in-memory config for the interface.
C8_ReloadReproduces ==
    WroteThrough =>
        LET i == ret.interface
            loaded == _load_config_from_ini(disk)
        IN  /\ has_section(disk, SectionName(i))
            /\ disk.opts[SectionName(i)] = Persisted(_interface_config[i])
            /\ i \in DOMAIN loaded
            /\ loaded[i] = _interface_config[i]

----------------------------------------------------------------------------
(* The classifier: properties of SpecClassify *)

\* a step of the loop over peers_to_check
CheckStep ==
    /\ pc = "check"
    /\ peers_to_check # <<>>
    /\ peers_to_check' = Tail(peers_to_check)

\* the peer the step checks, its record before the step (a fresh one if it has none)
\* and its handshake age
Checked == Head(peers_to_check)

Before ==
    IF Checked.public_key \in DOMAIN _peer_health THEN _peer_health[Checked.public_key]
    ELSE PeerHealthInfo(Checked.public_key, Checked.vpn_ip, Checked.interface, Checked.name)

AgeOf(latest_handshake) == _parse_handshake_age(latest_handshake, Now)

\* the probe the step issues to the peer's VPN address
ProbeOf(peer_info) ==
    [ip |-> peer_info.vpn_ip, public_key |-> peer_info.public_key,
     interface |-> peer_info.interface]

\* the probe counters of a record, and those of the monitor
ProbeFields(health) ==
    <<health.ping_success_count, health.ping_fail_count, health.last_ping_time,
      health.last_ping_success, health.ping_rtt_ms>>

ProbeTotals(stats) == <<stats.total_pings, stats.successful_pings, stats.failed_pings>>

\* the peer the classification model reports on wg0, and its record
Reported == wg_configs["wg0"].Peers[1]

CycleDone == pc = "check" /\ peers_to_check = <<>>

\* C1: a collected peer whose handshake age is below 3 minutes is probed, and is
\* classified online when the probe succeeds and unpingable (never offline) when it
\* fails; its pingable flag equals the outcome of the probe.
C1_FreshHandshake ==
    [][(CheckStep /\ AgeOf(Checked.latest_handshake).res = "age"
                  /\ AgeOf(Checked.latest_handshake).age < 3 * 60) =>
          LET after == _peer_health'[Checked.public_key]
              succeeded == _stats'.successful_pings = _stats.successful_pings + 1
          IN  /\ probe_log' = Append(probe_log, ProbeOf(Checked))
              /\ after.status = IF succeeded THEN "online" ELSE "unpingable"
              /\ after.is_pingable = succeeded
              /\ after.last_ping_success = succeeded]_vars

\* a peer with a handshake 2:59 old was probed without an answer and is unpingable
C1_Witness ==
    /\ CycleDone
    /\ AgeOf(Reported.latest_handshake).res = "age"
    /\ AgeOf(Reported.latest_handshake).age = 179
    /\ probe_log = <<[ip |-> "10.0.0.2", public_key |-> "pkA", interface |-> "wg0"]>>
    /\ "pkA" \in DOMAIN _peer_health
    /\ _peer_health["pkA"].status = "unpingable"
    /\ ~_peer_health["pkA"].is_pingable
    /\ _peer_health["pkA"].last_ping_time = Datetime(Now)

\* C2: a collected peer whose handshake age is from 3 to 15 minutes, both bounds
\* included, is classified recent whatever the probe returns, and exactly one probe
\* is issued to its VPN address.
C2_RecentHandshake ==
    [][(CheckStep /\ AgeOf(Checked.latest_handshake).res = "age"
                  /\ AgeOf(Checked.latest_handshake).age >= 3 * 60
                  /\ AgeOf(Checked.latest_handshake).age <= 15 * 60) =>
          /\ _peer_health'[Checked.public_key].status = "recent"
          /\ probe_log' = Append(probe_log, ProbeOf(Checked))]_vars

\* a peer with a handshake exactly 3:00 old was probed once, with an answer, and is recent
C2_Witness ==
    /\ CycleDone
    /\ AgeOf(Reported.latest_handshake).res = "age"
    /\ AgeOf(Reported.latest_handshake).age = 180
    /\ probe_log = <<[ip |-> "10.0.0.2", public_key |-> "pkA", interface |-> "wg0"]>>
    /\ "pkA" \in DOMAIN _peer_health
    /\ _peer_health["pkA"].status = "recent"
    /\ _peer_health["pkA"].last_ping_success
    /\ _peer_health["pkA"].last_ping_time = Datetime(Now)

\* C3: a collected peer whose handshake age exceeds 15 minutes is classified offline
\* and no probe is issued: the probe counts and last-probe fields of its record and
\* the total, successful and failed probe counters stay as they were, and the skipped
\* counter grows by one.
C3_StaleHandshake ==
    [][(CheckStep /\ AgeOf(Checked.latest_handshake).res = "age"
                  /\ AgeOf(Checked.latest_handshake).age > 15 * 60) =>
          LET after == _peer_health'[Checked.public_key]
          IN  /\ after.status = "offline"
              /\ probe_log' = probe_log
              /\ ProbeFields(after) = ProbeFields(Before)
              /\ ProbeTotals(_stats') = ProbeTotals(_stats)
              /\ _stats'.skipped_offline = _stats.skipped_offline + 1
              /\ cycle_results'.skipped = cycle_results.skipped + 1]_vars

\* a peer that answered a probe in the cycle before has a handshake 15:01 old in this
\* one: it is offline, was not probed, and keeps its probe fields
C3_Witness ==
    /\ CycleDone
    /\ AgeOf(Reported.latest_handshake).res = "age"
    /\ AgeOf(Reported.latest_handshake).age = 901
    /\ probe_log = <<>>
    /\ cycle_results.skipped = 1
    /\ "pkA" \in DOMAIN _peer_health
    /\ _peer_health["pkA"].status = "offline"
    /\ _peer_health["pkA"].ping_success_count = 1
    /\ _peer_health["pkA"].last_ping_time = Datetime(Now - 60)

\* C4: a collected peer whose handshake age is unknown (the parser returns no age) is
\* classified unknown and counted as skipped, and no probe is issued.
C4_UnknownHandshake ==
    [][(CheckStep /\ AgeOf(Checked.latest_handshake).res = "None") =>
          LET after == _peer_health'[Checked.public_key]
          IN  /\ after.status = "unknown"
              /\ probe_log' = probe_log
              /\ ProbeFields(after) = ProbeFields(Before)
              /\ ProbeTotals(_stats') = ProbeTotals(_stats)
              /\ _stats'.skipped_offline = _stats.skipped_offline + 1
              /\ cycle_results'.skipped = cycle_results.skipped + 1]_vars

\* a peer that was online in the cycle before reports "No Handshake" in this one: it
\* is unknown and was not probed
C4_Witness ==
    /\ CycleDone
    /\ Reported.latest_handshake = Str(<<"N", "o", " ", "H", "a", "n", "d", "s", "h", "a", "k", "e">>)
    /\ probe_log = <<>>
    /\ cycle_results.skipped = 1
    /\ "pkA" \in DOMAIN _peer_health
    /\ _peer_health["pkA"].status = "unknown"
    /\ _peer_health["pkA"].is_pingable
    /\ _peer_health["pkA"].last_ping_time = Datetime(Now - 60)

\* C5 as the specification states it: the endpoint-changed flag of a checked peer is
\* set exactly when the endpoint reported in this cycle differs from the one recorded
\* in the cycle before and neither of the two is "(none)"; it is cleared otherwise,
\* first observation included, and the endpoint-change counters grow by one exactly
\* when the flag is set.  A record without an endpoint text has none recorded.
C5_EndpointChanged ==
    [][CheckStep =>
          LET after == _peer_health'[Checked.public_key]
              recorded == Before.last_endpoint # ""
              differs == /\ recorded
                         /\ Checked.endpoint # Before.last_endpoint
                         /\ Before.last_endpoint # "(none)"
                         /\ Checked.endpoint # "(none)"
          IN  /\ after.endpoint_changed = differs
              /\ _stats'.endpoint_updates =
                     _stats.endpoint_updates + (IF after.endpoint_changed THEN 1 ELSE 0)
              /\ cycle_results'.endpoint_changes =
                     cycle_results.endpoint_changes + (IF after.endpoint_changed THEN 1 ELSE 0)]_vars

----------------------------------------------------------------------------
(* Skipped interfaces and keepalive corrections: properties of Spec *)

\* a pass of the loop over the interfaces, and the interface it looks at
CollectStep ==
    /\ pc = "collect"
    /\ iface_idx' = iface_idx + 1 \/ pc' = "check"

Collected == IfaceOrder[iface_idx]

\* the commands the step issued
Issued == SubSeq(cmd_log', Len(cmd_log) + 1, Len(cmd_log'))

\* nothing was done in the running cycle for an interface it saw down or disabled: no
\* command, no collected peer, no probe
NothingForSkipped ==
    /\ \A k \in 1..Len(cmd_log) : cmd_log[k].interface \notin skipped_log
    /\ \A k \in 1..Len(peers_to_check) : peers_to_check[k].interface \notin skipped_log
    /\ \A k \in 1..Len(probe_log) : probe_log[k].interface \notin skipped_log

\* the record of a peer identifier is created or modified by the step
Touched(k) ==
    /\ k \in DOMAIN _peer_health'
    /\ k \in DOMAIN _peer_health => _peer_health'[k] # _peer_health[k]

\* C9 as the specification states it: in a cycle, for every interface that is down
\* or has monitoring disabled, no keepalive command is issued, no probe is issued to
\* any of its peers, and no record that names the interface as its own is created
\* or modified.
C9_SkippedUntouched ==
    [][/\ NothingForSkipped'
       /\ \A k \in DOMAIN _peer_health' :
              Touched(k) =>
                  /\ _peer_health'[k].interface \notin skipped_log
                  /\ k \in DOMAIN _peer_health =>
                         _peer_health[k].interface \notin skipped_log]_vars

\* C9, amended: in a cycle, for every interface that is down or has monitoring
\* disabled, no keepalive command is issued, none of its peers is collected or probed,
\* and no record is created or modified for it: a record is created or modified only
\* for a peer identifier that an up and monitored interface reported in the cycle,
\* and the record then names that interface.
C9_SkippedContributeNothing ==
    [][/\ NothingForSkipped'
       /\ \A k \in DOMAIN _peer_health' :
              Touched(k) =>
                  /\ CheckStep
                  /\ k = Checked.public_key
                  /\ Checked.interface \notin skipped_log
                  /\ _peer_health'[k].interface = Checked.interface]_vars

\* wg1 is skipped in this cycle and its peer keeps the record of the cycle before,
\* while the peers of wg0 were checked and one of them probed
C9_Witness ==
    /\ CycleDone
    /\ skipped_log = {"wg1"}
    /\ "pkC" \in DOMAIN _peer_health
    /\ _peer_health["pkC"].interface = "wg1"
    /\ _peer_health["pkC"].last_ping_time = Datetime(Now - 60)
    /\ probe_log = <<[ip |-> "10.0.0.2", public_key |-> "pkA", interface |-> "wg0"]>>
    /\ _peer_health["pkA"].last_ping_time = Datetime(Now)

\* C10 as the specification states it: in a cycle, for an up and monitored interface
\* with keepalive enforcement enabled, a correction command is issued for a peer
\* exactly when the keepalive value of the peer differs from the desired one; with
\* enforcement disabled none is issued for any peer of the interface.
C10_CorrectsExactlyDiffering ==
    [][CollectStep =>
          LET wg_config == wg_configs[Collected]
              monitored == /\ wg_config.status
                           /\ Collected \in DOMAIN _interface_config'
                           /\ _interface_config'[Collected].enabled
              cfg == _interface_config'[Collected]
              corrected(peer) ==
                  \E k \in 1..Len(Issued) :
                      /\ Issued[k].interface = Collected
                      /\ Issued[k].peer = peer.id
                      /\ Issued[k].value = IntToStr(cfg.keepalive_value)
          IN  monitored =>
                 \A k \in 1..Len(wg_config.Peers) :
                     corrected(wg_config.Peers[k]) <=>
                         /\ cfg.set_keepalive
                         /\ wg_config.Peers[k].persistent_keepalive # cfg.keepalive_value]_vars

----------------------------------------------------------------------------
(* Utilities.py: the validation of interface names and peer identifiers, and *)
(* the texts the names of the model stand for                               *)

Upper == {"A", "B", "C", "D", "E", "F", "G", "H", "I", "J", "K", "L", "M", "N", "O", "P",
    "Q", "R", "S", "T", "U", "V", "W", "X", "Y", "Z"}

Lower26 == {"a", "b", "c", "d", "e", "f", "g", "h", "i", "j", "k", "l", "m", "n", "o", "p",
    "q", "r", "s", "t", "u", "v", "w", "x", "y", "z"}

Alnum == Upper \cup Lower26 \cup {Digits[d] : d \in 1..10}

\* _IFACE_RE.fullmatch(name): ^[A-Za-z0-9_.-]{1,15}$
_IFACE_RE(name) ==
    /\ Len(name) >= 1
    /\ Len(name) <= 15
    /\ \A k \in 1..Len(name) : name[k] \in Alnum \cup {"_", ".", "-"}

\* _PEER_RE.fullmatch(peer_id): ^[A-Za-z0-9+/=]{32,64}$
_PEER_RE(peer_id) ==
    /\ Len(peer_id) >= 32
    /\ Len(peer_id) <= 64
    /\ \A k \in 1..Len(peer_id) : peer_id[k] \in Alnum \cup {"+", "/", "="}

\* whether _validate_interface returns the name (else it raises ValueError)
_validate_interface(name) == name # <<>> /\ _IFACE_RE(name)

\* whether _validate_peer_id returns the identifier (else it raises ValueError)
_validate_peer_id(peer_id) == peer_id # <<>> /\ _PEER_RE(peer_id)

\* the interface names as texts
IfaceText(interface) ==
    IF interface = "wg0" THEN <<"w", "g", "0">> ELSE <<"w", "g", "1">>

\* the peer identifiers as texts: pkA and pkC are base64 keys, pkB is a key in the
\* URL-safe alphabet ("-" and "_" for "+" and "/")
KeyText(id) ==
    IF id = "pkB"
    THEN <<"A", "A", "A", "A", "A", "A", "A", "A", "A", "A", "A", "A", "A", "A", "A", "A",
        "A", "A", "A", "A", "b", "b", "b", "b", "b", "b", "b", "b", "b", "b", "0", "0", "0",
        "0", "0", "0", "0", "0", "-", "_", "Z", "z", "9", "=">>
    ELSE IF id = "pkA"
    THEN <<"A", "A", "A", "A", "A", "A", "A", "A", "A", "A", "A", "A", "A", "A", "A", "A",
        "A", "A", "A", "A", "b", "b", "b", "b", "b", "b", "b", "b", "b", "b", "0", "0", "0",
        "0", "0", "0", "0", "0", "+", "/", "Z", "z", "9", "=">>
    ELSE <<"C", "A", "A", "A", "A", "A", "A", "A", "A", "A", "A", "A", "A", "A", "A", "A",
        "A", "A", "A", "A", "b", "b", "b", "b", "b", "b", "b", "b", "b", "b", "0", "0", "0",
        "0", "0", "0", "0", "0", "+", "/", "Z", "z", "9", "=">>

\* C11 as the specification states it: every keepalive correction command the
\* reconciler issues carries an interface name that _validate_interface accepts and
\* a peer identifier that _validate_peer_id accepts; for a name or an identifier
\* that fails the validation no command is composed or run.
C11_CommandsValidated ==
    \A k \in 1..Len(cmd_log) :
        /\ _validate_interface(IfaceText(cmd_log[k].interface))
        /\ _validate_peer_id(KeyText(cmd_log[k].peer))

----------------------------------------------------------------------------
(* The worker thread: properties of SpecWorker *)

\* worker w has just computed the sleep that follows its cycle
IntervalStep(w) ==
    /\ w \in 1..Len(workers)
    /\ workers[w].pc = "interval"
    /\ workers'[w].pc = "for"

\* the probe intervals of the interfaces whose monitoring is enabled
EnabledIntervals ==
    {_interface_config[i].ping_interval :
        i \in {j \in DOMAIN _interface_config : _interface_config[j].enabled}}

SleepRank(at) ==
    CASE at = "sleep" -> 3
      [] at = "for" -> 2
      [] at = "while" -> 1
      [] at = "done" -> 0
      [] OTHER -> 4

\* worker w is in the sleep between two cycles
InSleep(w) == w \in 1..Len(workers) /\ workers[w].pc \in {"for", "sleep"}

\* worker w has left _monitor_loop
Ended(w) == w \in 1..Len(workers) /\ workers[w].pc = "done"

\* C13: when stop() is called while the worker is in the sleep between two cycles,
\* the worker starts no further cycle and ends after at most one more one-second
\* slice, whatever the configured interval: while the flag stays down, each of its
\* steps brings it nearer to its end (the slice it is in returns, the loop breaks,
\* the while test fails), and it does reach its end unless start() raises the flag
\* again.
C13_StopEndsSleep ==
    /\ [][\A w \in 1..Len(workers) :
             (/\ ~_running
              /\ ~_running'
              /\ workers[w].pc \in {"for", "sleep", "while"}
              /\ workers'[w] # workers[w]) =>
                 /\ SleepRank(workers'[w].pc) = SleepRank(workers[w].pc) - 1
                 /\ workers'[w].remaining >= workers[w].remaining - 1]_vars
    /\ \A w \in 1..MaxWorkers :
           (InSleep(w) /\ ~_running) ~> (_running \/ Ended(w))

\* a worker ended by a stop() that found it in its sleep: slices were left
C13_Witness ==
    /\ ~_running
    /\ \E w \in 1..Len(workers) :
           /\ workers[w].pc = "done"
           /\ workers[w].remaining > 0
           /\ workers[w].remaining < workers[w].min_interval
----------------------------------------------------------------------------
(* The probe: properties of SpecClassify *)

\* the step checks a peer and probes it
ProbeStep == CheckStep /\ Len(probe_log') = Len(probe_log) + 1

\* C19: a probe never raises to its caller: whether the peer answers, stays silent
\* or the probe itself fails with an error, the check goes on to classify the peer
\* from a structured outcome; a failed outcome has a round-trip time of 0, and every
\* failed probe, on either failure path, raises the failure counter of the monitor
\* by exactly one and leaves the success counter alone.
C19_FailedProbeCounted ==
    [][ProbeStep =>
          LET after == _peer_health'[Checked.public_key]
          IN  /\ after.status \in {"online", "unpingable", "recent"}
              /\ after.last_ping_time = Datetime(Now)
              /\ IF after.last_ping_success
                 THEN /\ _stats'.failed_pings = _stats.failed_pings
                      /\ _stats'.successful_pings = _stats.successful_pings + 1
                 ELSE /\ after.ping_rtt_ms = 0
                      /\ _stats'.failed_pings = _stats.failed_pings + 1
                      /\ _stats'.successful_pings = _stats.successful_pings]_vars

\* a probe has failed with an error (it counted a failure and no probe), and the
\* peer was classified from the failed outcome
C19_Witness ==
    /\ _stats.failed_pings + _stats.successful_pings > _stats.total_pings
    /\ "pkA" \in DOMAIN _peer_health
    /\ _peer_health["pkA"].last_ping_time # None
    /\ ~_peer_health["pkA"].last_ping_success
    /\ _peer_health["pkA"].ping_fail_count = _stats.failed_pings
----------------------------------------------------------------------------
(* Two cycles side by side: properties of SpecForce *)

\* the running counts of a record
Counts(health) == <<health.ping_success_count, health.ping_fail_count>>

\* the record has been written by a probe or by a classification
Used(health) ==
    \/ health.last_ping_time # None
    \/ health.last_endpoint # ""
    \/ health.ping_success_count + health.ping_fail_count > 0

\* C17: in every reachable state, also while a scheduled cycle and a forced cycle run
\* side by side, there is one record per peer identifier, stored under the key that
\* equals its public_key; a record, once created, is never removed and never replaced
\* by a fresh one, so its running counts are never reset.
C17_OneRecordPerKey ==
    /\ [](\A k \in DOMAIN _peer_health : _peer_health[k].public_key = k)
    /\ [][\A k \in DOMAIN _peer_health :
             /\ k \in DOMAIN _peer_health'
             /\ _peer_health'[k].ping_success_count >= _peer_health[k].ping_success_count
             /\ _peer_health'[k].ping_fail_count >= _peer_health[k].ping_fail_count
             /\ Used(_peer_health[k]) => Used(_peer_health'[k])]_vars

\* the forced cycle has looked up, under the lock, the record of the peer that the
\* scheduled cycle is about to check, and the record has counted a probe before
C17_Witness ==
    /\ pc = "check"
    /\ peers_to_check # <<>>
    /\ forced.pc = "classify"
    /\ Head(forced.peers).public_key = Head(peers_to_check).public_key
    /\ Head(forced.peers).public_key \in DOMAIN _peer_health
    /\ _peer_health[Head(forced.peers).public_key].ping_success_count > 0

\* the scheduled cycle has called _check_peer, or the forced one has
ScheduledCheck == pc = "check" /\ peers_to_check' # peers_to_check

ForcedCheck == forced.pc = "classify" /\ forced'.pc = "lookup"

\* the handshake of the peer makes _check_peer raise
Raises(peer_info) == AgeOf(peer_info.latest_handshake).res = "raise"

\* C20: if the classification of one peer raises, every other peer collected in that
\* cycle is still classified, and the cycle still records its completion time and
\* its duration: after each call of _check_peer, raising or not, the loop goes on with
\* the next collected peer; a peer whose own classification does not raise is counted
\* as checked; and the cycle ends, with both statistics written, only when no
\* collected peer is left.
C20_RaiseKeepsCycle ==
    [][/\ ScheduledCheck =>
              /\ peers_to_check' = Tail(peers_to_check)
              /\ pc' = "check"
              /\ ~Raises(Checked) => cycle_results'.checked = cycle_results.checked + 1
       /\ ForcedCheck =>
              /\ forced'.peers = Tail(forced.peers)
              /\ ~Raises(Head(forced.peers)) =>
                     forced'.results.checked = forced.results.checked + 1
       /\ (pc = "check" /\ pc' = "idle") =>
              /\ peers_to_check = <<>>
              /\ _stats'.last_cycle_time = Datetime(Now)
              /\ _stats'.last_cycle_duration_ms = DurationMs(probe_log)
       /\ (forced.pc = "lookup" /\ forced'.pc = "idle") =>
              /\ forced.peers = <<>>
              /\ _stats'.last_cycle_time = Datetime(Now)
              /\ _stats'.last_cycle_duration_ms = DurationMs(forced.probes)]_vars

\* a first cycle, with no forced one beside it, has come to its end: the classification
\* of pkA raised, and pkB, collected after it, was probed and classified recent
C20_Witness ==
    /\ CycleDone
    /\ cycles = 1
    /\ forced.calls = 0
    /\ Raises(CollectPeers("wg0", wg_configs["wg0"].Peers)[1])
    /\ cycle_results.checked = 1
    /\ cycle_results.recent = 1
    /\ _peer_health["pkA"].status = "unknown"
    /\ _peer_health["pkB"].status = "recent"
    /\ _peer_health["pkB"].last_ping_time = Datetime(Now)
----------------------------------------------------------------------------
(* The facade: properties of SpecFacade *)

\* caller c begins a call of the given operation
Asks(c, op) == calls[c].pc = "returned" /\ calls'[c].op = op /\ calls'[c].n = calls[c].n + 1

\* the ping_peer_now call of caller c returns the dict of its record
PingReturns(c) == calls[c].pc = "store" /\ calls'[c].pc = "returned"

\* the record the ping_peer_now call of caller c found, as it was then, and the probe's
\* outcome
Found(c) == calls[c].before.v

\* C14: ping_peer_now on a registered peer, whatever the status of the peer, issues
\* exactly one probe, to the VPN address the record holds; it writes the time, the
\* outcome and the round-trip time of that probe into the record, adds one to exactly
\* one of the two counts (the success count for an answered probe, the failure count
\* otherwise), and returns the dict of the record as updated.  (What the record holds
\* when another call writes the same record meanwhile is not claimed here.)
C14_ForcedProbe ==
    [][\A c \in Callers :
          /\ (Asks(c, "ping") /\ calls'[c].public_key \in DOMAIN _peer_health) =>
                 /\ calls'[c].pc = "probe"
                 /\ calls'[c].sent = <<>>
          /\ (calls[c].pc = "probe" /\ calls'[c].pc # "probe") =>
                 calls'[c].sent = <<_peer_health[calls[c].public_key].vpn_ip>>
          /\ PingReturns(c) =>
                 LET after == _peer_health'[calls[c].public_key]
                 IN  /\ Len(calls[c].sent) = 1
                     /\ calls'[c].reply = Dict(to_dict(after))
                     /\ calls[c].alone =>
                            /\ after.last_ping_time = Datetime(Now)
                            /\ after.last_ping_success = calls[c].result.success
                            /\ after.ping_rtt_ms = calls[c].result.rtt_ms
                            /\ Counts(after) =
                                   IF calls[c].result.success
                                   THEN <<Found(c).ping_success_count + 1,
                                          Found(c).ping_fail_count>>
                                   ELSE <<Found(c).ping_success_count,
                                          Found(c).ping_fail_count + 1>>]_vars

\* a forced probe of pkC, which the cycle had classified offline and never probed, was
\* answered: the dict returned shows the probe, at a success rate of 100.0
C14_Witness ==
    \E c \in Callers :
        /\ calls[c].op = "ping"
        /\ calls[c].pc = "returned"
        /\ calls[c].public_key = "pkC"
        /\ calls[c].reply # None
        /\ calls[c].reply.v.status = "offline"
        /\ calls[c].reply.v.last_ping_success
        /\ calls[c].reply.v.ping_success_rate = 1000
        /\ calls[c].sent = <<"10.1.0.2">>

\* C15: ping_peer_now and get_peer_health for an identifier without a record report
\* "not found" (None) and raise nothing: no probe is issued, no record is created, and
\* every record and every counter of the monitor is as before.
C15_UnknownPeer ==
    [][\A c \in Callers : \A op \in {"ping", "get"} :
          (Asks(c, op) /\ calls'[c].public_key \notin DOMAIN _peer_health) =>
              /\ calls'[c].pc = "returned"
              /\ calls'[c].reply = None
              /\ calls'[c].sent = <<>>
              /\ _peer_health' = _peer_health
              /\ _stats' = _stats]_vars

\* both calls were made for pkD, the key of no peer, while the monitor held records
C15_Witness ==
    /\ DOMAIN _peer_health # {}
    /\ \E c \in Callers : \E d \in Callers :
           /\ calls[c].op = "ping" /\ calls[c].public_key = "pkD"
           /\ calls[c].pc = "returned" /\ calls[c].reply = None
           /\ calls[d].op = "get" /\ calls[d].public_key = "pkD"
           /\ calls[d].pc = "returned" /\ calls[d].reply = None

\* the call of caller c writes to its record
PingWrites(c) == calls[c].pc \in {"update", "store"} /\ calls'[c].pc # calls[c].pc

\* C16: whatever the interleaving of concurrent ping_peer_now calls on distinct peers,
\* each record ends as a serial execution of the calls produces it: a call that no
\* other call on its peer overlaps leaves its record as _update_peer_after_ping makes
\* it from the record the call found, and no write of a call changes the record of
\* another peer.
C16_DistinctPeersSerial ==
    [][\A c \in Callers :
          /\ (PingReturns(c) /\ calls[c].alone) =>
                 _peer_health'[calls[c].public_key] =
                     _update_peer_after_ping(Found(c), calls[c].result, Now)
          /\ PingWrites(c) =>
                 \A k \in DOMAIN _peer_health \ {calls[c].public_key} :
                     _peer_health'[k] = _peer_health[k]]_vars

\* two calls on distinct peers are both between the read and the write of their count
C16_Witness ==
    \E c \in Callers : \E d \in Callers :
        /\ calls[c].pc = "store"
        /\ calls[d].pc = "store"
        /\ calls[c].public_key # calls[d].public_key
        /\ calls[c].alone
        /\ calls[d].alone

\* the interfaces that are known and up
UpInterfaces == {i \in DOMAIN wg_configs : wg_configs[i].status}

\* C18: get_all_health returns the record of a peer only if the interface of the
\* record is known and up at the time of the call, and lists the configuration of the
\* interfaces that are up and of no other; the records of peers on other interfaces
\* stay in the record set.
C18_OnlyUpInterfaces ==
    [][\A c \in Callers :
          Asks(c, "all") =>
              LET result == calls'[c].reply.v
              IN  /\ DOMAIN result.peers =
                         {k \in DOMAIN _peer_health :
                              _peer_health[k].interface \in UpInterfaces}
                  /\ \A k \in DOMAIN result.peers :
                         result.peers[k] = to_dict(_peer_health[k])
                  /\ DOMAIN result.interfaces = UpInterfaces
                  /\ \A i \in DOMAIN result.interfaces :
                         /\ result.interfaces[i].interface_active
                         /\ result.interfaces[i].enabled = _interface_config'[i].enabled
                         /\ result.interfaces[i].ping_interval =
                                _interface_config'[i].ping_interval
                  /\ _peer_health' = _peer_health]_vars

\* wg0 is down and wg1 is up: the call returned pkC alone and listed wg1 alone, and the
\* records of wg0's peers are still held
C18_Witness ==
    \E c \in Callers :
        /\ calls[c].op = "all"
        /\ calls[c].reply # None
        /\ DOMAIN calls[c].reply.v.peers = {"pkC"}
        /\ DOMAIN calls[c].reply.v.interfaces = {"wg1"}
        /\ {"pkA", "pkB", "pkC"} \subseteq DOMAIN _peer_health
        /\ "wg0" \in DOMAIN wg_configs
        /\ ~wg_configs["wg0"].status

----------------------------------------------------------------------------
(* Failing and succeeding correction commands: properties of Spec *)

\* a command the step issued raised
IssueFailed == \E k \in 1..Len(Issued) : Issued[k].raised

\* the step issued a command for the peer
Corrected(peer) ==
    \E k \in 1..Len(Issued) : Issued[k].interface = Collected /\ Issued[k].peer = peer.id

RECURSIVE KeepaliveAfter(_, _, _, _)
KeepaliveAfter(cmds, interface, peer_id, current) ==
    IF cmds = <<>> THEN current
    ELSE KeepaliveAfter(Tail(cmds), interface, peer_id,
                        IF /\ Head(cmds).interface = interface
                           /\ Head(cmds).peer = peer_id
                           /\ ~Head(cmds).raised
                           /\ StrToInt(Head(cmds).value).ok
                        THEN StrToInt(Head(cmds).value).v
                        ELSE current)

\* C22: when a cycle passes an up and monitored interface with keepalive enforcement
\* enabled and none of its correction commands fails, every peer of the interface has
\* the desired keepalive value afterwards, whatever value it had drifted to.
C22_KeepaliveConverges ==
    [][(/\ CollectStep
        /\ ~IssueFailed
        /\ wg_configs[Collected].status
        /\ _interface_config'[Collected].enabled
        /\ _interface_config'[Collected].set_keepalive) =>
          \A k \in 1..Len(wg_configs[Collected].Peers) :
              KeepaliveAfter(Issued, Collected, wg_configs[Collected].Peers[k].id,
                             wg_configs[Collected].Peers[k].persistent_keepalive)
                  = _interface_config'[Collected].keepalive_value]_vars

\* the keepalive of pkA has drifted to 0 after the first cycle, and the second cycle
\* has run the commands for both peers of wg0
C22_Witness ==
    /\ CycleDone
    /\ cycles = 2
    /\ wg_configs["wg0"].Peers[1].persistent_keepalive = 0
    /\ "wg0" \in DOMAIN _interface_config
    /\ _interface_config["wg0"].set_keepalive
    /\ Len(cmd_log) >= 2
    /\ cmd_log[1].peer = "pkA" /\ ~cmd_log[1].raised
    /\ cmd_log[2].peer = "pkB" /\ ~cmd_log[2].raised
    /\ KeepaliveAfter(cmd_log, "wg0", "pkA", 0) = _interface_config["wg0"].keepalive_value

----------------------------------------------------------------------------
(* The probe address: properties of SpecCollect *)

\* an entry that resolves to exactly one host
SingleHost(e) == e.t = "net" /\ HostCount(e.plen) = 1

HasSingleHost(allowed_ip) == \E k \in 1..Len(allowed_ip) : SingleHost(allowed_ip[k])

\* the host of the first such entry in list order
FirstSingleHost(allowed_ip) ==
    allowed_ip[CHOOSE k \in 1..Len(allowed_ip) :
                   /\ SingleHost(allowed_ip[k])
                   /\ \A l \in 1..(k - 1) : ~SingleHost(allowed_ip[l])].addr

\* the peer_info was collected from a reported peer with a single-host entry, and its
\* address is the host of the first one
Eligible(peer_info) ==
    \E k \in 1..Len(wg_configs[peer_info.interface].Peers) :
        LET peer == wg_configs[peer_info.interface].Peers[k]
        IN  /\ peer.id = peer_info.public_key
            /\ HasSingleHost(peer.allowed_ip)
            /\ peer_info.vpn_ip = FirstSingleHost(peer.allowed_ip)

\* a pass of the first loop that an exception ends, and the cycle with it
CollectAborts == pc = "collect" /\ pc' = "idle"

\* C23: a peer is collected only if some entry of its allowed-address list is a
\* single-host network, and its probe address is the host of the first such entry; a
\* record is created or modified, and a probe issued, only for a collected peer; and
\* a pass of the collection is not ended by a malformed entry: when an exception ends
\* it, a peer of the interface lists a network too wide to enumerate.
C23_SingleHostCollected ==
    [][/\ \A k \in 1..Len(peers_to_check') : Eligible(peers_to_check'[k])
       /\ \A k \in DOMAIN _peer_health' :
              Touched(k) => CheckStep /\ k = Checked.public_key
       /\ \/ probe_log' \in {<<>>, probe_log}
          \/ CheckStep /\ probe_log' = Append(probe_log, ProbeOf(Checked))
       /\ CollectAborts =>
              \E k \in 1..Len(wg_configs[Collected].Peers) :
                  \E l \in 1..Len(wg_configs[Collected].Peers[k].allowed_ip) :
                      wg_configs[Collected].Peers[k].allowed_ip[l].t = "wide"]_vars

\* pkA lists a malformed entry, a network of 254 hosts and two single hosts, and was
\* probed at the first of the two; pkB lists only the network of 254 hosts and has no
\* record
C23_Witness ==
    /\ CycleDone
    /\ Reported.allowed_ip = <<[t |-> "bad"], Net("10.0.1.0", 24), Net("10.0.0.3", 32),
                               Net("10.0.0.4", 32)>>
    /\ wg_configs["wg0"].Peers[2].allowed_ip = <<Net("10.0.1.0", 24)>>
    /\ probe_log = <<[ip |-> "10.0.0.3", public_key |-> "pkA", interface |-> "wg0"]>>
    /\ "pkA" \in DOMAIN _peer_health
    /\ _peer_health["pkA"].vpn_ip = "10.0.0.3"
    /\ "pkB" \notin DOMAIN _peer_health

----------------------------------------------------------------------------
(* The handshake-age parser: properties of SpecParse *)

\* the step parsed the handshake of the checked peer to the age d: the peer is counted
\* as checked and its record holds the moment d before now
ParsedTo(d) ==
    /\ AgeOf(Checked.latest_handshake).res = "age"
    /\ AgeOf(Checked.latest_handshake).age = d
    /\ cycle_results'.checked = cycle_results.checked + 1
    /\ _peer_health'[Checked.public_key].last_handshake = Datetime(Now - d)

\* the step parsed it to unknown: the peer is counted as skipped, its record is
\* unknown and keeps the moment it held
ParsedToUnknown ==
    /\ AgeOf(Checked.latest_handshake).res = "None"
    /\ cycle_results'.skipped = cycle_results.skipped + 1
    /\ _peer_health'[Checked.public_key].status = "unknown"
    /\ _peer_health'[Checked.public_key].last_handshake = Before.last_handshake

\* the round trip of the forms in which the moment ts is reported
TimestampsRoundTrip(forms) ==
    \A f \in forms : \A ts \in ParseTimestamps :
        Checked.latest_handshake = EncodeTimestamp(f, ts) => ParsedTo(Now - ts)

\* C24 as the specification states it: a duration d encoded as "H:MM:SS" or
\* "<N> day(s), H:MM:SS" parses to d; a moment d before now, encoded as an ISO string,
\* a number, a numeric string or a timestamp value, parses to d; each sentinel parses
\* to unknown.
C24_RoundTrips ==
    [][CheckStep =>
          /\ \A d \in ParseDurations :
                 Checked.latest_handshake = Str(DurationStr(d)) => ParsedTo(d)
          /\ TimestampsRoundTrip(TimestampForms)
          /\ \A s \in Sentinels :
                 Checked.latest_handshake = Str(s) => ParsedToUnknown]_vars

\* C25 as the specification states it: the parser never raises to its caller: for
\* every reported value the check of the peer goes through with an age or with unknown,
\* and a text in none of the accepted forms gives unknown.
C25_NeverRaises ==
    [][CheckStep =>
          /\ AgeOf(Checked.latest_handshake).res \in {"age", "None"}
          /\ cycle_results'.checked = cycle_results.checked + 1
          /\ \A s \in Unaccepted :
                 Checked.latest_handshake = Str(s) => ParsedToUnknown]_vars

----------------------------------------------------------------------------
(* The aggregate statistics: properties of SpecStats *)

Counters ==
    {"total_pings", "successful_pings", "failed_pings", "skipped_offline", "endpoint_updates"}

\* C26 as the specification states it: no counter of the aggregate statistics is
\* ever reset or lowered, whatever the interleaving of cycles and forced probes.
C26_CountersNeverDecrease ==
    [][\A k \in Counters : _stats'[k] >= _stats[k]]_vars

----------------------------------------------------------------------------
(* A stop request and the cycle in flight: properties of SpecStop *)

\* the peers a cycle over the present reports and configuration collects
Eligibles == CollectLoop(1, wg_configs, _interface_config, ini, disk).peers

\* thread w is in a cycle
InCycle(w) == workers[w].pc = "run"

\* C27: a stop request never interrupts a cycle in flight.  A thread leaves its cycle
\* only by the return of the cycle, every collected peer classified and the completion
\* recorded in the statistics, whether or not stop() was called meanwhile; no step of
\* another thread, stop() included, takes a collected peer from the cycle; and a
\* thread ends only at the test of its while loop, which the sleep slices lead to.
C27_StopKeepsCycle ==
    [][\A w \in 1..Len(workers) :
          /\ InCycle(w) /\ InCycle(w)' =>
                 /\ pc' # "idle"
                 /\ Len(peers_to_check') + cycle_results'.checked >=
                        Len(peers_to_check) + cycle_results.checked
          /\ InCycle(w) /\ ~InCycle(w)' =>
                 /\ workers'[w].pc = "interval"
                 /\ peers_to_check = <<>>
                 /\ cycle_results.checked = Len(Eligibles)
                 /\ _stats'.last_cycle_time = Datetime(Now)
          /\ workers[w].pc # "done" /\ workers'[w].pc = "done" =>
                 workers[w].pc = "while" /\ ~_running]_vars

\* stop() was called while the only thread was collecting; the cycle has classified
\* and probed both peers since and recorded its completion, and the thread is on its
\* way to the while test
C27_Witness ==
    /\ Len(workers) = 1
    /\ ~_running
    /\ workers[1].pc = "interval"
    /\ workers[1].stopped = "collect"
    /\ _stats.last_cycle_time = Datetime(Now)
    /\ DOMAIN _peer_health = {"pkA", "pkB"}
    /\ \A k \in DOMAIN _peer_health : _peer_health[k].last_ping_time = Datetime(Now)

----------------------------------------------------------------------------
(* The health lock: a property of SpecForce *)

\* a step of the forced cycle's _check_peer after its `with self._health_lock` block:
\* the thread holds no lock
CheckUnlocked == forced.pc = "classify" /\ forced'.pc # "classify"

\* C28 as the specification states it: every write of a peer health record is made
\* while the acting thread holds the health lock, so a step of _check_peer after its
\* locked block leaves every record as it was.
C28_WritesUnderLock ==
    [][CheckUnlocked => _peer_health' = _peer_health]_vars

----------------------------------------------------------------------------
(* set_interface_config beside a cycle: properties of SpecConfig *)

\* the interface the running cycle is at, and its entry
Passing == IfaceOrder[iface_idx]

\* a set call for the interface the cycle is at has begun
SetCalled == ret.op = "set" /\ ret.interface = Passing

\* the entry as it was when the set call began, and as the call leaves it
OldConfig == calls[CHOOSE c \in Callers : calls[c].op = "set"].before.v
NewConfig == ApplyConfig(Put(EmptyDict, ret.interface, OldConfig), ret.interface, ret.args).cfg

\* the statements of the pass that read a field of the entry
ReadsEnabled == pc = "collect" /\ (pc' # "collect" \/ iface_idx' # iface_idx)
ReadsKeepalive == pc = "keepalive" /\ pc' # "keepalive"
ReadsValue == pc = "enforce" /\ pc' # "enforce"

\* C29 as the specification states it: when set_interface_config changes several fields
\* of an entry while a cycle runs, the fields the cycle has read of that entry in a pass
\* (enabled, then set_keepalive, then keepalive_value) are all fields of the old entry
\* or all fields of the new one.
C29_NoMixedConfig ==
    [][SetCalled =>
          /\ ReadsKeepalive =>
                \E v \in {OldConfig, NewConfig} :
                    /\ v.enabled
                    /\ v.set_keepalive = _interface_config[Passing].set_keepalive
          /\ ReadsValue =>
                \E v \in {OldConfig, NewConfig} :
                    /\ v.enabled
                    /\ v.set_keepalive
                    /\ v.keepalive_value = _interface_config[Passing].keepalive_value]_vars

\* C30 as the specification states it: a set call made while a cycle is in progress
\* does not change what that cycle does: the cycle skips the interface, enforces
\* keepalive and chooses the value as the entry said when the call began.
C30_WriteWaitsForNextCycle ==
    [][(SetCalled /\ cycles = 1) =>
          /\ ReadsEnabled => (Passing \in skipped_log' <=> ~OldConfig.enabled)
          /\ ReadsKeepalive => (pc' = "enforce" <=> OldConfig.set_keepalive)
          /\ ReadsValue =>
                cmd_log' = cmd_log \o _ensure_keepalive(Passing, wg_configs[Passing],
                                                        OldConfig.keepalive_value, 0)]_vars

----------------------------------------------------------------------------
(* A record across cycles: a property of SpecClassify *)

\* the fields of a record that a check observes
Observed(health) ==
    <<health.status, health.is_pingable, health.last_handshake, health.vpn_ip,
      health.interface, health.name, health.last_endpoint>>

\* the record _check_peer leaves for the checked peer when no earlier cycle left one
FirstSeen(probe) ==
    _check_peer(EmptyDict, ZeroStats, ZeroResults, Checked, probe, Now).health[Checked.public_key]

\* C31 as the specification states it: the status, pingable flag, last handshake
\* time, VPN address, interface, name and last endpoint of a record after the check
\* of its peer are those the check gives from the reported peer and the probe outcome
\* alone, whatever an earlier cycle left in the record.
C31_OnlyThisCycle ==
    [][CheckStep =>
          \E probe \in ProbeOutcomes :
              /\ _peer_health' = _check_peer(_peer_health, _stats, cycle_results, Checked,
                                             probe, Now).health
              /\ Observed(_peer_health'[Checked.public_key]) = Observed(FirstSeen(probe))]_vars

----------------------------------------------------------------------------
(* The life of the worker: a property of SpecIter *)

\* C32 as the specification states it: while the monitor is started and not stopped,
\* its worker (the thread the last start() created) has not terminated, neither
\* through an exception nor by leaving its while loop, whatever the facade is asked
\* meanwhile.
C32_WorkerNeverEnds ==
    _running => /\ workers # <<>>
                /\ workers[Len(workers)].pc \notin {"raised", "done"}

----------------------------------------------------------------------------
(* The endpoint check: a property of SpecClassify *)

\* whether the check of the step finds the endpoint changed
Moved == EndpointChanged(Before.last_endpoint, Checked.endpoint)

\* C33: for every collected peer the endpoint-change check is made before the status
\* is assigned, so it is made whatever the status becomes, offline and unknown
\* included: the record has the flag of the comparison of its previous endpoint with
\* the reported one and holds the reported endpoint, and a change is counted once in
\* the statistics and in the result of the cycle.
C33_EndpointCheckedFirst ==
    [][CheckStep =>
          /\ _peer_health'[Checked.public_key].endpoint_changed = Moved
          /\ _peer_health'[Checked.public_key].last_endpoint = Checked.endpoint
          /\ _stats'.endpoint_updates = _stats.endpoint_updates + (IF Moved THEN 1 ELSE 0)
          /\ cycle_results'.endpoint_changes =
                 cycle_results.endpoint_changes + (IF Moved THEN 1 ELSE 0)]_vars

\* a cycle has classified a peer offline and found its endpoint changed
C33_Witness ==
    /\ CycleDone
    /\ "pkA" \in DOMAIN _peer_health
    /\ _peer_health["pkA"].status = "offline"
    /\ _peer_health["pkA"].endpoint_changed
    /\ _peer_health["pkA"].last_endpoint = "203.0.113.9:4500"
    /\ cycle_results.endpoint_changes = 1
    /\ cycle_results.offline = 1

----------------------------------------------------------------------------
(* The number of workers: a property of SpecStop *)

\* a thread that has not left _monitor_loop
Live(w) == workers[w].pc \notin {"done", "raised"}

\* C34 as the specification states it: at most one thread is in _monitor_loop at any
\* time, whatever the sequence of start() and stop() calls.
C34_AtMostOneWorker == Cardinality({w \in DOMAIN workers : Live(w)}) <= 1

----------------------------------------------------------------------------
(* Probes of one peer side by side: a property of SpecFacade *)

\* the probes a record has counted
Counted(health) == health.ping_success_count + health.ping_fail_count

\* C35 as the specification states it: no probe result is lost, so each probe that
\* ping_peer_now completes for a peer adds one to the sum of the two counts of its
\* record, whatever other probe of that peer runs beside it.
C35_NoLostProbe ==
    [][\A c \in Callers :
          (calls[c].pc = "store" /\ calls'[c].pc = "returned") =>
              Counted(_peer_health'[calls[c].public_key]) =
                  Counted(_peer_health[calls[c].public_key]) + 1]_vars

----------------------------------------------------------------------------
(* A first read beside a write of the configuration: a property of SpecRace *)

\* C36: a get_interface_config that found no entry of the interface leaves the entry
\* that a set_interface_config has made since, and its section of the store, as that
\* call wrote them.
C36_GetKeepsWritten ==
    [][\A c \in Callers :
          (/\ calls[c].pc = "create"
           /\ calls'[c].pc = "returned"
           /\ calls[c].public_key \in DOMAIN _interface_config)
          => /\ _interface_config'[calls[c].public_key]
                   = _interface_config[calls[c].public_key]
             /\ disk' = disk]_vars

----------------------------------------------------------------------------
(* A write of the configuration that fails: a property of SpecStore *)

\* C37: a set_interface_config that returns False leaves the configs in memory and
\* the store as they were before the call.
C37_FailedSetChangesNothing ==
    [][(ret'.op = "set" /\ ret'.value = FALSE)
          => /\ _interface_config' = _interface_config
             /\ disk' = disk]_vars

----------------------------------------------------------------------------
(* The aggregate counters of the probes: a property of SpecClassify, where a *)
(* probe begins and ends within one step                                     *)

\* C38: the probes counted are the successful and the failed ones together.
C38_TotalIsSum ==
    _stats.total_pings = _stats.successful_pings + _stats.failed_pings

----------------------------------------------------------------------------
(* The snapshots of the facade: a property of SpecFacade *)

\* the status and the probe flags of a snapshot agree
Agrees(snapshot) ==
    /\ snapshot.status = "online" => snapshot.is_pingable /\ snapshot.last_ping_success
    /\ snapshot.status = "unpingable" =>
           ~snapshot.is_pingable /\ ~snapshot.last_ping_success
    /\ snapshot.status = "offline" => ~snapshot.is_pingable

\* C39: in every snapshot that get_peer_health or get_all_health has returned, the
\* status and the probe flags agree.
C39_SnapshotsAgree ==
    \A c \in Callers :
        /\ (calls[c].op = "get" /\ calls[c].reply # None) => Agrees(calls[c].reply.v)
        /\ calls[c].op = "all" =>
               \A pk \in DOMAIN calls[c].reply.v.peers : Agrees(calls[c].reply.v.peers[pk])

----------------------------------------------------------------------------
(* The counters a cycle returns: a property of SpecResult *)

\* the counters of a cycle add up
AddsUp(results) ==
    /\ results.checked
          = results.online + results.unpingable + results.recent + results.skipped
    /\ results.offline <= results.skipped
    /\ results.pingable <= results.online + results.recent

\* what a collected peer adds to the peers checked: nothing if its handshake makes the
\* classification raise
CountsAs(peer_info) == IF AgeOf(peer_info.latest_handshake).res = "raise" THEN 0 ELSE 1

\* C40: the counters of a cycle, scheduled or forced, satisfy checked = online +
\* unpingable + recent + skipped, offline <= skipped and pingable <= online + recent,
\* and each collected peer adds one to checked unless its classification raises.
C40_ResultAddsUp ==
    /\ [](AddsUp(cycle_results) /\ AddsUp(forced.results))
    /\ [][/\ (CheckStep =>
                 cycle_results'.checked = cycle_results.checked + CountsAs(Checked))
           /\ (CheckUnlocked =>
                 forced'.results.checked
                    = forced.results.checked + CountsAs(Head(forced.peers)))]_vars

\* a cycle has returned the counters of one peer checked and found offline, the other
\* peer having a handshake that the parser raises on
C40_Witness ==
    /\ CycleDone
    /\ wg_configs["wg0"].Peers[1].latest_handshake = Str(<<"i", "n", "f">>)
    /\ cycle_results.checked = 1
    /\ cycle_results.offline = 1
    /\ cycle_results.skipped = 1
====
